---- MODULE Spec2Model ----
(***************************************************************************)
(* SlingCraft: the rolling prediction buffer, the craft state machine and  *)
(* the worker-parallel transfer planner of game.js, with the message loop  *)
(* of transfer-worker.js.                                                  *)
(*                                                                         *)
(* The main thread is single threaded: every handler (a game-loop turn, a  *)
(* click, one worker message) runs to completion, so each is one action.   *)
(* Handlers are written as operators from a record of the main thread's    *)
(* variables to the record after the handler; an action assigns the        *)
(* record back to the variables.  Each worker is a FIFO inbox, a FIFO      *)
(* outbox and the snapshot it holds.                                       *)
(*                                                                         *)
(* Body and craft coordinates are not modelled.  A body state is           *)
(* identified by its frame number, simulateStep adds one, and              *)
(* predictionBuffer is the sequence of the frame numbers it holds.  `now`  *)
(* is the number of the next frame to apply: the bodies hold frame         *)
(* now - 1.  A craft frame is identified by the body frame it was          *)
(* simulated against.  Scores are inputs of the worker step.               *)
(***************************************************************************)
EXTENDS Integers, Sequences, FiniteSets, TLC

\* ---- program constants; the frame counts are scaled down (source values in comments) ----
PREDICTION_FRAMES == 5             \* ceil(360 / 0.033) = 10910
MAX_CATCHUP_FRAMES == 3            \* 100
MIN_TRAJECTORY_RUNWAY_FRAMES == 2  \* ceil(200 / 0.033) = 6061
TRANSFER_SEARCH_MIN_FRAMES == 1    \* ceil(5 / 0.033) = 152
searchBatchSize == 1               \* 50
\* time is counted in units of PREDICTION_DT (0.033 s)
PREDICTION_DT == 1
CRAFT_ORBITAL_ALTITUDE == 5
PRE_OPTIMIZATION_THRESHOLD == 20
POST_OPTIMIZATION_THRESHOLD == 5
\* JavaScript's Infinity (scores, transferBestArrivalFrame)
Infinity == 1000

\* ---- bounds of the model ----
MaxGeneration == 2      \* searchGeneration is capped in SelectDestination's guard
MaxShifts == 2          \* frames popped in one run
MaxClockShifts == 8     \* frames popped in one run of the simulation clock alone
BurnFrames == 1         \* craft frames of a trajectory with isAccelerating set

Workers == {1, 2}       \* navigator.hardwareConcurrency || 4
NumWorkers == Cardinality(Workers)
Bodies == {1, 2}        \* indices into bodies; 0 stands for null
NoBody == 0
HomeBody == 1           \* initBodies puts the craft on Ember

\* scores a worker can compute: base (no correction) and corrected
BaseScores == {10, 30, Infinity}
CorrectedScores == {4, 8}
Durations == {1}
\* dt of one game-loop turn, in frames (0: less than a frame has passed)
DtValues == {0, 1, 2}

VARIABLES
  \* simulation clock and prediction buffer
  isPaused, speedMultiplier, predictionTimeAccum, predictionBuffer, now,
  \* the craft
  craft,
  \* transfer planner, main thread
  transferState, transferSourceBody, transferDestinationBody, transferCraft,
  transferBestScore, transferBestFrame, transferBestTrajectory,
  transferScheduledFrame, transferInsertionFrame, transferBestArrivalFrame,
  correctionAngle, correctionDuration, correctionStartFrame,
  workerBusy, workerPoolReady, nextBatchStart, pendingBatches,
  searchGeneration, searchedUpToFrame, bufferShiftsSinceInit,
  acceptableTrajectories, transferCache,
  \* workers and the messages in flight
  inbox, outbox, workerSnapshot,
  \* history of the last handler (ghost)
  lastOp,
  \* the frames dispatched to workers in the running search generation, as
  \* frame numbers (ghost)
  dispatchedFrames,
  \* a run of optimizeCorrectionBoost in a worker: its locals and its position
  optimizer,
  \* craft.orbitalAngle, in steps of TwoPi to the turn
  orbitalAngle

mainVars == <<isPaused, speedMultiplier, predictionTimeAccum, predictionBuffer, now,
  craft, transferState, transferSourceBody, transferDestinationBody, transferCraft,
  transferBestScore, transferBestFrame, transferBestTrajectory,
  transferScheduledFrame, transferInsertionFrame, transferBestArrivalFrame,
  correctionAngle, correctionDuration, correctionStartFrame,
  workerBusy, workerPoolReady, nextBatchStart, pendingBatches,
  searchGeneration, searchedUpToFrame, bufferShiftsSinceInit,
  acceptableTrajectories, transferCache, inbox, lastOp, dispatchedFrames>>

vars == <<mainVars, outbox, workerSnapshot, optimizer, orbitalAngle>>

\* ---- small helpers ----
Min(S) == CHOOSE x \in S : \A y \in S : x <= y
MinOf(a, b) == IF a <= b THEN a ELSE b

NoCorrection == [isSet |-> FALSE, angle |-> 0, duration |-> 0, startFrame |-> 0]
NoTrajectory == <<>>    \* null (the worker never returns an empty trajectory)
NoSnapshot == [len |-> -1, time |-> -1]   \* predictionBuffer = null in the worker
QuietOp == "none"

\* The frames i .. (i + n - 1) as a sequence
Frames(first, n) == [j \in 1..n |-> first + j - 1]

\* a trajectory frame whose x, y, vx, vy are NaN
NaN == -2

\* x, y, vx, vy of a craft that were not taken from a trajectory frame
OnOrbit == -1

NewCraft == [state |-> "orbiting", parentBody |-> HomeBody,
             orbitalAltitude |-> CRAFT_ORBITAL_ALTITUDE,
             trajectoryBuffer |-> <<>>, destinationBody |-> NoBody,
             correctionParams |-> NoCorrection, flightFrame |-> 0,
             insertionFrame |-> 0, launchedFromBody |-> NoBody,
             escapeVelocity |-> 0, isAccelerating |-> FALSE,
             isCorrecting |-> FALSE, frame |-> OnOrbit]

\* The main thread's variables as one record
Cur == [isPaused |-> isPaused, speedMultiplier |-> speedMultiplier,
  predictionTimeAccum |-> predictionTimeAccum,
  predictionBuffer |-> predictionBuffer, now |-> now, craft |-> craft,
  transferState |-> transferState, transferSourceBody |-> transferSourceBody,
  transferDestinationBody |-> transferDestinationBody, transferCraft |-> transferCraft,
  transferBestScore |-> transferBestScore, transferBestFrame |-> transferBestFrame,
  transferBestTrajectory |-> transferBestTrajectory,
  transferScheduledFrame |-> transferScheduledFrame,
  transferInsertionFrame |-> transferInsertionFrame,
  transferBestArrivalFrame |-> transferBestArrivalFrame,
  correctionAngle |-> correctionAngle, correctionDuration |-> correctionDuration,
  correctionStartFrame |-> correctionStartFrame,
  workerBusy |-> workerBusy, workerPoolReady |-> workerPoolReady,
  nextBatchStart |-> nextBatchStart, pendingBatches |-> pendingBatches,
  searchGeneration |-> searchGeneration, searchedUpToFrame |-> searchedUpToFrame,
  bufferShiftsSinceInit |-> bufferShiftsSinceInit,
  acceptableTrajectories |-> acceptableTrajectories, transferCache |-> transferCache,
  inbox |-> inbox, lastOp |-> lastOp]

\* the search messages the handler that leads to s has posted to worker w
NewBatches(s, w) ==
  {s.inbox[w][i] : i \in (Len(inbox[w]) + 1)..Len(s.inbox[w])}
    \cap {m \in {s.inbox[w][i] : i \in 1..Len(s.inbox[w])} : m.type = "search"}

\* the frame numbers of batch m: the workers' snapshot starts at the frame
\* that was next when it was posted, bufferShiftsSinceInit shifts ago
BatchFrames(s, m) ==
  {s.now - s.bufferShiftsSinceInit + L : L \in m.frameStart..(m.frameEnd - 1)}

\* the frames dispatched in the running generation once the handler is done
dispatchedAfter(s) ==
  (IF s.searchGeneration = searchGeneration THEN dispatchedFrames ELSE {})
    \cup UNION {BatchFrames(s, m) : m \in UNION {NewBatches(s, w) : w \in DOMAIN s.inbox}}

AssignMain(s) ==
  /\ isPaused' = s.isPaused
  /\ speedMultiplier' = s.speedMultiplier
  /\ predictionTimeAccum' = s.predictionTimeAccum
  /\ predictionBuffer' = s.predictionBuffer
  /\ now' = s.now
  /\ craft' = s.craft
  /\ transferState' = s.transferState
  /\ transferSourceBody' = s.transferSourceBody
  /\ transferDestinationBody' = s.transferDestinationBody
  /\ transferCraft' = s.transferCraft
  /\ transferBestScore' = s.transferBestScore
  /\ transferBestFrame' = s.transferBestFrame
  /\ transferBestTrajectory' = s.transferBestTrajectory
  /\ transferScheduledFrame' = s.transferScheduledFrame
  /\ transferInsertionFrame' = s.transferInsertionFrame
  /\ transferBestArrivalFrame' = s.transferBestArrivalFrame
  /\ correctionAngle' = s.correctionAngle
  /\ correctionDuration' = s.correctionDuration
  /\ correctionStartFrame' = s.correctionStartFrame
  /\ workerBusy' = s.workerBusy
  /\ workerPoolReady' = s.workerPoolReady
  /\ nextBatchStart' = s.nextBatchStart
  /\ pendingBatches' = s.pendingBatches
  /\ searchGeneration' = s.searchGeneration
  /\ searchedUpToFrame' = s.searchedUpToFrame
  /\ bufferShiftsSinceInit' = s.bufferShiftsSinceInit
  /\ acceptableTrajectories' = s.acceptableTrajectories
  /\ transferCache' = s.transferCache
  /\ inbox' = s.inbox
  /\ lastOp' = s.lastOp
  /\ dispatchedFrames' = dispatchedAfter(s)

\* the same where the optimizer's run and the orbit angle are not followed
Assign(s) ==
  /\ AssignMain(s)
  /\ optimizer' = optimizer
  /\ orbitalAngle' = orbitalAngle

SearchActive(st) == st \in {"searching", "ready", "scheduled"}

\* ---- plan registry (game.js 3686-3905) ----

NoCacheEntry == [present |-> FALSE, score |-> Infinity, launchFrame |-> -1,
                 arrivalFrame |-> Infinity, trajectory |-> NoTrajectory,
                 insertionFrame |-> 0, correction |-> NoCorrection]

getTransferCacheKey(sourceBody, destBody) == <<sourceBody, destBody>>

CacheKeys == Bodies \X Bodies

\* saveToTransferCache: only an acceptable best (arrival frame not Infinity) is cached
saveToTransferCache(s) ==
  IF s.transferCraft = FALSE \/ s.transferDestinationBody = NoBody \/ s.transferBestFrame < 0
  THEN s
  ELSE IF s.transferBestArrivalFrame = Infinity
  THEN s
  ELSE [s EXCEPT !.transferCache[getTransferCacheKey(s.craft.parentBody,
                                                     s.transferDestinationBody)] =
          [present |-> TRUE, score |-> s.transferBestScore,
           launchFrame |-> s.transferBestFrame,
           arrivalFrame |-> s.transferBestArrivalFrame,
           trajectory |-> s.transferBestTrajectory,
           insertionFrame |-> s.transferInsertionFrame,
           correction |-> [isSet |-> TRUE, angle |-> s.correctionAngle,
                           duration |-> s.correctionDuration,
                           startFrame |-> s.correctionStartFrame]]]

\* updateTransferCacheOnShift: decrement every entry, delete the expired ones
updateTransferCacheOnShift(s) ==
  [s EXCEPT !.transferCache =
     [key \in CacheKeys |->
        LET entry == s.transferCache[key] IN
        IF ~entry.present THEN entry
        ELSE IF entry.launchFrame - 1 <= 0 THEN NoCacheEntry
        ELSE [entry EXCEPT !.launchFrame = @ - 1, !.arrivalFrame = @ - 1]]]

\* the entry addAcceptableTrajectory builds, with k the shifts subtracted
adjustedEntry(result, k) ==
  [launchFrame |-> result.launchFrame - k,
   arrivalFrame |-> result.arrivalFrame - k,
   score |-> result.score,
   trajectory |-> result.trajectory,
   insertionFrame |-> result.insertionFrame,
   correction |-> result.correction]

\* insertion before the first entry that arrives later, or at the end
sortedInsert(list, entry) ==
  LET later == {i \in 1..Len(list) : list[i].arrivalFrame > entry.arrivalFrame} IN
  IF later = {} THEN Append(list, entry)
  ELSE SubSeq(list, 1, Min(later) - 1) \o <<entry>> \o SubSeq(list, Min(later), Len(list))

\* the body of addAcceptableTrajectory: shift adjustment, expiry check, sorted insertion
insertAdjusted(s, result, k) ==
  LET entry == adjustedEntry(result, k) IN
  IF entry.launchFrame <= 0 THEN s
  ELSE [s EXCEPT !.acceptableTrajectories = sortedInsert(@, entry)]

\* variant: the worker's indices are stored without the shift adjustment
addUnadjusted(s, result) == insertAdjusted(s, result, 0)

\* variant: no expiry check
addExpired(s, result) ==
  [s EXCEPT !.acceptableTrajectories =
     sortedInsert(@, adjustedEntry(result, s.bufferShiftsSinceInit))]

\* variant: every entry is appended
addAtEnd(s, result) ==
  LET entry == adjustedEntry(result, s.bufferShiftsSinceInit) IN
  IF entry.launchFrame <= 0 THEN s
  ELSE [s EXCEPT !.acceptableTrajectories = Append(@, entry)]

\* addAcceptableTrajectory(result)
addAcceptableTrajectory(s, result) == insertAdjusted(s, result, s.bufferShiftsSinceInit)

RECURSIVE addAll(_, _)
\* the loop of handleWorkerMessage over batchResult.acceptableResults
addAll(s, results) ==
  IF results = <<>> THEN s
  ELSE addAll(addAcceptableTrajectory(s, Head(results)), Tail(results))

\* updateBestFromList: transferBest* from the first entry, or cleared
updateBestFromList(s) ==
  IF Len(s.acceptableTrajectories) = 0
  THEN [s EXCEPT !.transferBestScore = Infinity, !.transferBestFrame = -1,
                 !.transferBestTrajectory = NoTrajectory,
                 !.transferBestArrivalFrame = Infinity,
                 !.transferInsertionFrame = 0,
                 !.correctionAngle = 0, !.correctionDuration = 0,
                 !.correctionStartFrame = 0]
  ELSE LET best == s.acceptableTrajectories[1] IN
       [s EXCEPT !.transferBestScore = best.score,
                 !.transferBestFrame = best.launchFrame,
                 !.transferBestTrajectory = best.trajectory,
                 !.transferBestArrivalFrame = best.arrivalFrame,
                 !.transferInsertionFrame = best.insertionFrame,
                 !.correctionAngle = IF best.correction.isSet THEN best.correction.angle ELSE 0,
                 !.correctionDuration = IF best.correction.isSet THEN best.correction.duration ELSE 0,
                 !.correctionStartFrame = IF best.correction.isSet THEN best.correction.startFrame ELSE 0]

\* the value updateBestFromList returns
hadAcceptable(s) == Len(s.acceptableTrajectories) > 0

DecrementEntry(e) == [e EXCEPT !.launchFrame = @ - 1, !.arrivalFrame = @ - 1]
StillAhead(e) == e.launchFrame > 0

\* variant: only launchFrame is decremented
shiftLaunchOnly(s) ==
  LET list == s.acceptableTrajectories
      moved == [i \in 1..Len(list) |-> [list[i] EXCEPT !.launchFrame = @ - 1]]
  IN [s EXCEPT !.acceptableTrajectories = SelectSeq(moved, StillAhead),
               !.searchedUpToFrame =
                  IF s.searchedUpToFrame > 0 /\ s.pendingBatches = 0 THEN @ - 1 ELSE @]

\* updateAcceptableTrajectoriesOnShift
updateAcceptableTrajectoriesOnShift(s) ==
  LET list == s.acceptableTrajectories
      moved == [i \in 1..Len(list) |-> DecrementEntry(list[i])]
  IN [s EXCEPT !.acceptableTrajectories = SelectSeq(moved, StillAhead),
               !.searchedUpToFrame =
                  IF s.searchedUpToFrame > 0 /\ s.pendingBatches = 0 THEN @ - 1 ELSE @]

\* resetTransferState
resetTransferState(s) ==
  [saveToTransferCache(s) EXCEPT
     !.transferState = "none", !.transferSourceBody = NoBody,
     !.transferDestinationBody = NoBody, !.transferCraft = FALSE,
     !.transferBestScore = Infinity, !.transferBestFrame = -1,
     !.transferBestTrajectory = NoTrajectory, !.transferScheduledFrame = -1,
     !.transferInsertionFrame = 0, !.transferBestArrivalFrame = Infinity,
     !.correctionAngle = 0, !.correctionDuration = 0, !.correctionStartFrame = 0,
     !.nextBatchStart = 0, !.pendingBatches = 0, !.bufferShiftsSinceInit = 0,
     !.acceptableTrajectories = <<>>, !.searchedUpToFrame = 0]

\* ---- messages ----
InitMsg(len, time) == [type |-> "init", generation |-> 0, frameStart |-> 0,
                       frameEnd |-> 0, snapLen |-> len, snapTime |-> time,
                       params |-> {}]

\* the names of the fields of params in a 'search' message
searchParams ==
  {"sourceBodyIndex", "destBodyIndex", "destBodyRadius", "orbitRadius", "orbitalSpeed",
   "baseOrbitalAngle", "angularVelocity", "escapeVelocity"}

SearchMsg(gen, fs, fe) == [type |-> "search", generation |-> gen, frameStart |-> fs,
                           frameEnd |-> fe, snapLen |-> 0, snapTime |-> 0,
                           params |-> searchParams]
\* 'updateBuffer': a new snapshot for a worker
UpdateMsg(len, time) == [type |-> "updateBuffer", generation |-> 0, frameStart |-> 0,
                         frameEnd |-> 0, snapLen |-> len, snapTime |-> time,
                         params |-> {}]
NoCandidate == [launchFrame |-> 0, score |-> Infinity, trajectory |-> NoTrajectory,
                insertionFrame |-> 0, arrivalFrame |-> 0, correction |-> NoCorrection]
NoResult == [acceptableResults |-> <<>>, hasBest |-> FALSE, bestNonAcceptable |-> NoCandidate]
ReadyMsg == [type |-> "ready", generation |-> 0, frameStart |-> 0, frameEnd |-> 0,
             snapTime |-> 0, result |-> NoResult]
ErrorMsg == [type |-> "error", generation |-> 0, frameStart |-> 0, frameEnd |-> 0,
             snapTime |-> 0, result |-> NoResult]

\* startParallelSearch: a fresh snapshot to every worker
startParallelSearch(s) ==
  IF s.transferCraft = FALSE \/ s.transferDestinationBody = NoBody THEN s
  ELSE [s EXCEPT !.workerPoolReady = FALSE,
                 !.bufferShiftsSinceInit = 0,
                 !.workerBusy = [w \in Workers |-> TRUE],
                 !.inbox = [w \in Workers |->
                              Append(s.inbox[w], InitMsg(Len(s.predictionBuffer), s.now))]]

\* variant: the batch is sent and nextBatchStart is left where it was
dispatchWithoutAdvance(s, w) ==
  LET maxLaunchFrame == Len(s.predictionBuffer) - MIN_TRAJECTORY_RUNWAY_FRAMES
      frameStart == s.nextBatchStart
      frameEnd == MinOf(s.nextBatchStart + searchBatchSize, maxLaunchFrame)
  IN IF s.nextBatchStart >= maxLaunchFrame THEN s
     ELSE IF s.transferCraft = FALSE \/ s.transferDestinationBody = NoBody THEN s
     ELSE [s EXCEPT !.workerBusy[w] = TRUE,
                    !.pendingBatches = @ + 1,
                    !.inbox[w] = Append(@, SearchMsg(s.searchGeneration, frameStart, frameEnd))]

\* dispatchNextBatch(workerIndex)
dispatchNextBatch(s, w) ==
  LET maxLaunchFrame == Len(s.predictionBuffer) - MIN_TRAJECTORY_RUNWAY_FRAMES
      frameStart == s.nextBatchStart
      frameEnd == MinOf(s.nextBatchStart + searchBatchSize, maxLaunchFrame)
  IN IF s.nextBatchStart >= maxLaunchFrame THEN s
     ELSE IF s.transferCraft = FALSE \/ s.transferDestinationBody = NoBody THEN s
     ELSE [s EXCEPT !.nextBatchStart = frameEnd,
                    !.workerBusy[w] = TRUE,
                    !.pendingBatches = @ + 1,
                    !.inbox[w] = Append(@, SearchMsg(s.searchGeneration, frameStart, frameEnd))]

RECURSIVE dispatchIdle(_, _)
\* for (i = 0; i < workerPool.length; i++)
\*   if (!workerBusy[i] && nextBatchStart < maxLaunchFrame) dispatchNextBatch(i)
dispatchIdle(s, w) ==
  IF w > NumWorkers THEN s
  ELSE IF ~s.workerBusy[w]
          /\ s.nextBatchStart < Len(s.predictionBuffer) - MIN_TRAJECTORY_RUNWAY_FRAMES
       THEN dispatchIdle(dispatchNextBatch(s, w), w + 1)
       ELSE dispatchIdle(s, w + 1)

\* startTransferSearch
startTransferSearch(s) ==
  startParallelSearch(
    [s EXCEPT !.transferState = "searching",
              !.acceptableTrajectories = <<>>, !.searchedUpToFrame = 0,
              !.transferBestScore = Infinity, !.transferBestFrame = -1,
              !.transferBestTrajectory = NoTrajectory,
              !.transferInsertionFrame = 0, !.transferBestArrivalFrame = Infinity,
              !.correctionAngle = 0, !.correctionDuration = 0,
              !.correctionStartFrame = 0,
              !.searchGeneration = @ + 1,
              !.nextBatchStart = TRANSFER_SEARCH_MIN_FRAMES,
              !.pendingBatches = 0])

\* updateTransferSearch (called from the game loop)
updateTransferSearch(s) ==
  LET maxLaunchFrame == Len(s.predictionBuffer) - MIN_TRAJECTORY_RUNWAY_FRAMES IN
  IF ~SearchActive(s.transferState) THEN s
  ELSE IF s.transferCraft = FALSE \/ s.transferDestinationBody = NoBody
  THEN resetTransferState(s)
  ELSE IF maxLaunchFrame <= TRANSFER_SEARCH_MIN_FRAMES THEN s
  ELSE IF ~(s.workerPoolReady /\ s.pendingBatches = 0) THEN s
  ELSE IF ~(s.searchedUpToFrame < maxLaunchFrame) THEN s
  ELSE IF s.bufferShiftsSinceInit > 0
  THEN startParallelSearch([s EXCEPT !.nextBatchStart = s.searchedUpToFrame])
  ELSE dispatchIdle([s EXCEPT !.nextBatchStart =
                       IF @ < s.searchedUpToFrame THEN s.searchedUpToFrame ELSE @], 1)

\* ---- handleWorkerMessage (game.js 3457-3571) ----

\* the 'ready' branch
handleReady(s, w) ==
  LET s1 == [s EXCEPT !.workerBusy[w] = FALSE]
      allReady == \A i \in Workers : ~s1.workerBusy[i]
  IN IF ~allReady THEN s1
     ELSE LET s2 == [s1 EXCEPT !.workerPoolReady = TRUE] IN
          IF SearchActive(s2.transferState)
          THEN dispatchIdle([s2 EXCEPT !.nextBatchStart =
                               IF @ < s2.searchedUpToFrame THEN s2.searchedUpToFrame ELSE @], 1)
          ELSE s2

\* the bestNonAcceptable branch of a result
ingestBestNonAcceptable(s, result) ==
  LET adjustedLaunchFrame == result.launchFrame - s.bufferShiftsSinceInit IN
  IF adjustedLaunchFrame > 0 /\ (s.transferBestFrame < 0 \/ result.score < s.transferBestScore)
  THEN [s EXCEPT !.transferBestScore = result.score,
                 !.transferBestFrame = adjustedLaunchFrame,
                 !.transferBestTrajectory = result.trajectory,
                 !.transferInsertionFrame = result.insertionFrame,
                 !.transferBestArrivalFrame = Infinity,
                 !.correctionAngle = IF result.correction.isSet THEN result.correction.angle ELSE 0,
                 !.correctionDuration = IF result.correction.isSet THEN result.correction.duration ELSE 0,
                 !.correctionStartFrame = IF result.correction.isSet THEN result.correction.startFrame ELSE 0]
  ELSE s

\* variant: the scheduled frame is not moved to the new first entry
ingestKeepsSchedule(s, results) ==
  LET s1 == updateBestFromList(addAll(s, results))
      s3 == IF s1.transferState = "searching"
            THEN [s1 EXCEPT !.transferState = "ready"]
            ELSE s1
  IN saveToTransferCache(s3)

\* the acceptableResults branch of a result
ingestAcceptable(s, results) ==
  LET s1 == updateBestFromList(addAll(s, results))
      s2 == IF s1.transferState = "scheduled" /\ Len(s1.acceptableTrajectories) > 0
            THEN [s1 EXCEPT !.transferScheduledFrame = s1.acceptableTrajectories[1].launchFrame]
            ELSE s1
      s3 == IF s2.transferState = "searching"
            THEN [s2 EXCEPT !.transferState = "ready"]
            ELSE s2
  IN saveToTransferCache(s3)

\* variant: no generation check
neverStale(s, m) == FALSE

\* the generation check of the 'result' branch
isStale(s, m) == m.generation # s.searchGeneration

\* the 'result' branch
handleResult(s, w, m) ==
  LET s0 == [s EXCEPT !.workerBusy[w] = FALSE] IN
  IF isStale(s0, m) THEN s0
  ELSE
    LET maxLaunchFrame == Len(s0.predictionBuffer) - MIN_TRAJECTORY_RUNWAY_FRAMES
        adjustedBatchEnd == m.frameEnd - s0.bufferShiftsSinceInit
        s1 == [s0 EXCEPT !.pendingBatches = @ - 1,
                         !.searchedUpToFrame =
                            IF adjustedBatchEnd > @ THEN adjustedBatchEnd ELSE @]
        s2 == IF Len(m.result.acceptableResults) > 0
              THEN ingestAcceptable(s1, m.result.acceptableResults)
              ELSE IF Len(s1.acceptableTrajectories) = 0 /\ m.result.hasBest
              THEN ingestBestNonAcceptable(s1, m.result.bestNonAcceptable)
              ELSE s1
    IN IF SearchActive(s2.transferState) /\ s2.nextBatchStart < maxLaunchFrame
       THEN dispatchNextBatch(s2, w)
       ELSE s2

handleWorkerMessage(s, w, m) ==
  CASE m.type = "error" -> [s EXCEPT !.workerBusy[w] = FALSE]
    [] m.type = "ready" -> handleReady(s, w)
    [] m.type = "result" -> handleResult(s, w, m)

\* ---- the craft (game.js 2472-2559, 2738-2807, 2873-2915) ----

\* the escape velocity of an orbit around body: positive, one value per body
escapeVelocityAt(body) == body

\* the isAccelerating flag of the craft frame at flight frame k: the launch
\* burn runs from the launch until escape velocity is passed
accelerating(k) == k < BurnFrames

\* Craft.launch: the trajectory buffer is simulated through the whole prediction buffer
launch(c, s) ==
  IF c.state # "orbiting" THEN c
  ELSE [c EXCEPT !.state = "free", !.launchedFromBody = c.parentBody,
                 !.escapeVelocity = escapeVelocityAt(c.parentBody),
                 !.isAccelerating = TRUE,
                 !.flightFrame = 0, !.isCorrecting = FALSE,
                 !.trajectoryBuffer = Frames(s.now, Len(s.predictionBuffer))]

\* Craft.launchWithTrajectory(trajectory, transferParams)
launchWithTrajectory(c, s, trajectory, transferParams) ==
  IF c.state # "orbiting" THEN c
  ELSE IF trajectory = NoTrajectory THEN launch(c, s)
  ELSE [c EXCEPT !.state = "free", !.launchedFromBody = c.parentBody,
                 !.escapeVelocity = escapeVelocityAt(c.parentBody),
                 !.isAccelerating = accelerating(0),
                 !.frame = Head(trajectory),
                 !.flightFrame = 0, !.isCorrecting = FALSE,
                 !.correctionParams = transferParams.correctionParams,
                 !.destinationBody = transferParams.destinationBody,
                 !.insertionFrame = transferParams.insertionFrame,
                 !.trajectoryBuffer = trajectory]

\* variant: the craft is put into orbit and its flight data are kept
captureKeepsFlight(c) ==
  [c EXCEPT !.state = "orbiting", !.parentBody = c.destinationBody,
            !.orbitalAltitude = CRAFT_ORBITAL_ALTITUDE,
            !.destinationBody = NoBody, !.insertionFrame = 0]

\* orbit insertion at the end of a transfer trajectory
capture(c) ==
  [c EXCEPT !.state = "orbiting", !.parentBody = c.destinationBody,
            !.orbitalAltitude = CRAFT_ORBITAL_ALTITUDE,
            !.destinationBody = NoBody, !.insertionFrame = 0,
            !.correctionParams = NoCorrection, !.launchedFromBody = NoBody,
            !.isAccelerating = FALSE, !.escapeVelocity = 0,
            !.isCorrecting = FALSE, !.frame = OnOrbit,
            !.flightFrame = 0]

\* variant: the correction window is tested after flightFrame was incremented
inCorrectionPhaseAfterStep(c) ==
  /\ c.correctionParams.isSet
  /\ c.flightFrame + 1 >= c.correctionParams.startFrame
  /\ c.flightFrame + 1 < c.correctionParams.startFrame + c.correctionParams.duration

\* inCorrectionPhase of the shift loop, with the flight frame before its increment
inCorrectionPhase(c) ==
  /\ c.correctionParams.isSet
  /\ c.flightFrame >= c.correctionParams.startFrame
  /\ c.flightFrame < c.correctionParams.startFrame + c.correctionParams.duration

\* the craft part of one buffer shift
popCraftFrame(c) ==
  IF c.state = "free" /\ Len(c.trajectoryBuffer) > 0
  THEN LET c1 == [c EXCEPT !.trajectoryBuffer = Tail(@),
                           !.frame = Head(c.trajectoryBuffer),
                           !.isAccelerating = accelerating(c.flightFrame),
                           !.isCorrecting = inCorrectionPhase(c),
                           !.flightFrame = @ + 1] IN
       IF Len(c1.trajectoryBuffer) = 0 /\ c1.destinationBody # NoBody
       THEN capture(c1)
       ELSE c1
  ELSE c

\* variant: the launch fires one shift before the counter reaches zero
launchEarly(s) == s.transferScheduledFrame <= 1 /\ s.transferCraft

\* the launch fires when the counter is at or below zero
launchDue(s) == s.transferScheduledFrame <= 0 /\ s.transferCraft

\* the scheduled branch of a shift
scheduledShift(s) ==
  LET s1 == [s EXCEPT !.transferScheduledFrame = @ - 1] IN
  IF launchDue(s1)
  THEN LET transferParams ==
             [correctionParams |->
                IF s1.correctionDuration > 0
                THEN [isSet |-> TRUE, angle |-> s1.correctionAngle,
                      duration |-> s1.correctionDuration,
                      startFrame |-> s1.correctionStartFrame]
                ELSE NoCorrection,
              destinationBody |-> s1.transferDestinationBody,
              insertionFrame |-> s1.transferInsertionFrame]
       IN resetTransferState(
            [s1 EXCEPT !.craft = launchWithTrajectory(s1.craft, s1,
                                   s1.transferBestTrajectory, transferParams)])
  ELSE s1

\* the searching / ready branch of a shift
unscheduledShift(s) ==
  LET s1 == updateBestFromList(s) IN
  IF hadAcceptable(s1) /\ s1.transferState = "searching"
  THEN [s1 EXCEPT !.transferState = "ready"]
  ELSE IF ~hadAcceptable(s1) /\ s1.transferState = "ready"
  THEN [s1 EXCEPT !.transferState = "searching"]
  ELSE s1

\* getBodyStates(): the frame the bodies hold (the last frame applied to them)
getBodyStates(s) == s.now - 1

\* simulateStep(state, masses, PREDICTION_DT): the frame after state
simulateStep(state) == state + 1

\* bodies[i] = nextState[i]: the bodies hold frame nextState, the next frame is now
applyState(nextState) == nextState + 1

RECURSIVE initialFill(_, _, _)
\* the for loop that fills the empty buffer, i frames pushed so far
initialFill(state, buffer, i) ==
  IF i < MAX_CATCHUP_FRAMES /\ Len(buffer) < PREDICTION_FRAMES
  THEN initialFill(simulateStep(state), Append(buffer, simulateStep(state)), i + 1)
  ELSE buffer

RECURSIVE extendFromBodies(_, _, _)
\* variant: every new frame is simulated from the bodies' state
extendFromBodies(s, buffer, framesAdded) ==
  IF Len(buffer) < PREDICTION_FRAMES /\ framesAdded < MAX_CATCHUP_FRAMES
  THEN extendFromBodies(s, Append(buffer, simulateStep(getBodyStates(s))), framesAdded + 1)
  ELSE buffer

RECURSIVE extendByOne(_, _, _)
\* variant: at most one frame is added per call
extendByOne(s, buffer, framesAdded) ==
  IF Len(buffer) < PREDICTION_FRAMES /\ framesAdded < 1
  THEN LET lastState == IF Len(buffer) > 0 THEN buffer[Len(buffer)]
                        ELSE getBodyStates(s)
       IN extendByOne(s, Append(buffer, simulateStep(lastState)), framesAdded + 1)
  ELSE buffer

RECURSIVE extend(_, _, _)
\* the while loop that adds new predictions at the tail
extend(s, buffer, framesAdded) ==
  IF Len(buffer) < PREDICTION_FRAMES /\ framesAdded < MAX_CATCHUP_FRAMES
  THEN LET lastState == IF Len(buffer) > 0 THEN buffer[Len(buffer)]
                        ELSE getBodyStates(s)
       IN extend(s, Append(buffer, simulateStep(lastState)), framesAdded + 1)
  ELSE buffer

\* one iteration of the while loop of updatePhysics: one buffer shift
shiftOnce(s) ==
  LET nextState == Head(s.predictionBuffer)
      s1 == [s EXCEPT !.predictionBuffer = Tail(@), !.now = applyState(nextState),
                      !.craft = popCraftFrame(s.craft)]
      s2 == updateTransferCacheOnShift(s1)
      s3 == [s2 EXCEPT !.bufferShiftsSinceInit = @ + 1]
      s4 == IF SearchActive(s3.transferState)
            THEN LET s5 == updateAcceptableTrajectoriesOnShift(s3) IN
                 IF s5.transferState = "scheduled"
                 THEN scheduledShift(s5)
                 ELSE unscheduledShift(s5)
            ELSE s3
  IN [s4 EXCEPT !.predictionTimeAccum = @ - PREDICTION_DT]

\* variant: an if in place of the while, at most one shift per call
shiftAtMostOnce(s) ==
  IF s.predictionTimeAccum >= PREDICTION_DT /\ Len(s.predictionBuffer) > 0
  THEN shiftOnce(s)
  ELSE s

RECURSIVE shiftLoop(_)
\* the while loop of updatePhysics
shiftLoop(s) ==
  IF s.predictionTimeAccum >= PREDICTION_DT /\ Len(s.predictionBuffer) > 0
  THEN shiftLoop(shiftOnce(s))
  ELSE s

\* updatePhysics(dt) past the pause test: fill, shift, extend
advancePhysics(s, dt) ==
  LET s1 == IF Len(s.predictionBuffer) = 0
            THEN [s EXCEPT !.predictionBuffer = initialFill(getBodyStates(s), <<>>, 0)]
            ELSE s
      s2 == shiftLoop([s1 EXCEPT !.predictionTimeAccum = @ + dt * s1.speedMultiplier])
  IN [s2 EXCEPT !.predictionBuffer = extend(s2, @, 0)]

\* variant: no pause test
updateWhilePaused(s, dt) == advancePhysics(s, dt)

\* updatePhysics(dt)
updatePhysics(s, dt) == IF s.isPaused THEN s ELSE advancePhysics(s, dt)

\* variant: no free craft has its trajectory buffer extended
updateCraftsWithoutExtension(s) ==
  IF s.isPaused THEN s
  ELSE IF s.craft.state = "orbiting" THEN [s EXCEPT !.craft.frame = OnOrbit]
  ELSE s

\* updateCrafts(dt): an orbiting craft is placed on its orbit, a free craft
\* without destination extends its buffer
updateCrafts(s) ==
  IF s.isPaused THEN s
  ELSE IF s.craft.state = "orbiting" THEN [s EXCEPT !.craft.frame = OnOrbit]
  ELSE IF s.craft.state = "free" /\ s.craft.destinationBody = NoBody
          /\ Len(s.craft.trajectoryBuffer) < Len(s.predictionBuffer)
  THEN [s EXCEPT !.craft.trajectoryBuffer =
          @ \o Frames(s.now + Len(@), Len(s.predictionBuffer) - Len(@))]
  ELSE s

\* gameLoop: updatePhysics, updateCrafts, updateTransferSearch
gameLoop(s, dt) == updateTransferSearch(updateCrafts(updatePhysics(s, dt)))

\* ---- the worker (transfer-worker.js 355-487) ----

\* what the simulation and the optimizer compute for one launch frame:
\* base score, corrected score, whether the closest approach is at the
\* end of the snapshot or at the first frame, the burn duration. The
\* numbers are not computed here: every outcome is allowed that the code
\* returns for some parameter values. A base score of Infinity is the
\* outcome of a trajectory of NaN frames (scoreTrajectory finds no distance
\* below Infinity), which is what processBatch computes when params has no
\* orbitalDirection.
Outcomes ==
  {o \in [base : BaseScores, corrected : CorrectedScores, late : BOOLEAN,
          duration : Durations] :
     /\ o.base > PRE_OPTIMIZATION_THRESHOLD =>
          o.corrected = Min(CorrectedScores) /\ ~o.late /\ o.duration = Min(Durations)
     /\ (o.base <= PRE_OPTIMIZATION_THRESHOLD /\ o.corrected > POST_OPTIMIZATION_THRESHOLD) =>
          ~o.late /\ o.duration = Min(Durations)}

\* simulateTrajectory / simulateTrajectoryWithCorrection: one craft frame for
\* every frame of the snapshot from launchFrame on; NaN frames when the
\* launch state is NaN
simulateTrajectory(launchFrame, snap, defined) ==
  IF launchFrame >= snap.len THEN <<>>
  ELSE IF defined THEN Frames(snap.time + launchFrame, snap.len - launchFrame)
  ELSE [j \in 1..(snap.len - launchFrame) |-> NaN]

\* variant: the insertion point itself is cut off
sliceBeforeInsertion(trajectory, insertionFrame) ==
  SubSeq(trajectory, 1, MinOf(insertionFrame, Len(trajectory)))

\* trajectory.slice(0, insertionFrame + 1)
truncate(trajectory, insertionFrame) ==
  SubSeq(trajectory, 1, MinOf(insertionFrame + 1, Len(trajectory)))

\* the candidate processBatch builds for launchFrame; the optimizer's final
\* insertion frame is taken to be the base trajectory's, from which it
\* computes correction.startFrame
candidate(launchFrame, snap, o) ==
  LET insertionFrame == IF o.late THEN snap.len - launchFrame - 1 ELSE 0
      trajectory == truncate(simulateTrajectory(launchFrame, snap, o.base # Infinity),
                             insertionFrame)
      optimized == o.base <= PRE_OPTIMIZATION_THRESHOLD
  IN [launchFrame |-> launchFrame,
      score |-> IF optimized THEN o.corrected ELSE o.base,
      trajectory |-> trajectory,
      insertionFrame |-> insertionFrame,
      arrivalFrame |-> launchFrame + Len(trajectory),
      correction |-> IF optimized
                     THEN [isSet |-> TRUE, angle |-> 1, duration |-> o.duration,
                           startFrame |-> (insertionFrame * 2) \div 3]
                     ELSE NoCorrection]

\* the fields processBatch takes from params
processBatchReads ==
  {"sourceBodyIndex", "destBodyIndex", "destBodyRadius", "orbitRadius", "orbitalSpeed",
   "baseOrbitalAngle", "angularVelocity", "escapeVelocity", "orbitalDirection"}

\* simulateTrajectoryWithCorrection: the frame at index localFrame of the
\* trajectory is computed with the correction burn
burnApplied(localFrame, correctionStartOffset, correctionDur) ==
  localFrame >= correctionStartOffset /\ localFrame < correctionStartOffset + correctionDur

\* variant: the base score is not tested before the optimizer's score
acceptUnoptimized(o) == o.corrected <= POST_OPTIMIZATION_THRESHOLD

\* a launch frame is acceptable when its base score let the optimizer run and
\* the corrected score is within the post-optimization threshold
isAcceptable(o) ==
  o.base <= PRE_OPTIMIZATION_THRESHOLD /\ o.corrected <= POST_OPTIMIZATION_THRESHOLD

RECURSIVE processFrames(_, _, _, _, _)
\* the for loop of processBatch, from launchFrame on, with the result so far
processFrames(launchFrame, frameEnd, snap, oc, acc) ==
  IF ~(launchFrame < frameEnd /\ launchFrame < snap.len) THEN acc
  ELSE LET c == candidate(launchFrame, snap, oc[launchFrame])
           acc1 == IF isAcceptable(oc[launchFrame])
                   THEN [acc EXCEPT !.acceptableResults = Append(@, c)]
                   ELSE IF ~acc.hasBest \/ c.score < acc.bestNonAcceptable.score
                   THEN [acc EXCEPT !.hasBest = TRUE, !.bestNonAcceptable = c]
                   ELSE acc
       IN processFrames(launchFrame + 1, frameEnd, snap, oc, acc1)

processBatch(frameStart, frameEnd, snap, oc) ==
  processFrames(frameStart, frameEnd, snap, oc, NoResult)

\* variant: a result does not say which generation its search was of
replyWithoutGeneration(m, snap, oc) ==
  IF m.type = "init" THEN ReadyMsg
  ELSE IF snap = NoSnapshot THEN ErrorMsg
  ELSE [type |-> "result", generation |-> 0, frameStart |-> m.frameStart,
        frameEnd |-> m.frameEnd, snapTime |-> snap.time,
        result |-> processBatch(m.frameStart, m.frameEnd, snap, oc)]

\* self.onmessage, the reply to one message
reply(m, snap, oc) ==
  IF m.type = "init" THEN ReadyMsg
  ELSE IF snap = NoSnapshot THEN ErrorMsg
  ELSE [type |-> "result", generation |-> m.generation, frameStart |-> m.frameStart,
        frameEnd |-> m.frameEnd, snapTime |-> snap.time,
        result |-> processBatch(m.frameStart, m.frameEnd, snap, oc)]

\* ---- optimizeCorrectionBoost (transfer-worker.js 257-351) ----

MAX_ITERATIONS == 4     \* 10000 in the source
MaxBurnTime == 2        \* 10 in the source, the longest burn in simulated seconds
MaxScore == 4           \* the optimizer's scores are 0..MaxScore and Infinity
ANGLE_STEP == 1         \* a tenth of a degree
DURATION_STEP == 1

\* Math.ceil(10 / PREDICTION_DT)
MAX_DURATION == (MaxBurnTime + PREDICTION_DT - 1) \div PREDICTION_DT

\* what scoreCorrectedTrajectory can return
OptScores == 0..MaxScore \cup {Infinity}

\* no run yet; angle counts steps from the retrograde direction
IdleOptimizer ==
  [pc |-> "idle", angle |-> 0, duration |-> 0, testDuration |-> 0, startFrame |-> 0,
   bestScore |-> Infinity, initialScore |-> Infinity, iterationCount |-> 0,
   improved |-> FALSE]

\* while (improved && iterationCount < MAX_ITERATIONS) { improved = false; iterationCount++; ...
loopHead(o) ==
  IF o.improved /\ o.iterationCount < MAX_ITERATIONS
  THEN [o EXCEPT !.pc = "angleMinus", !.improved = FALSE, !.iterationCount = @ + 1]
  ELSE [o EXCEPT !.pc = "done"]

\* the function up to the loop, for a trajectory of len frames with its
\* closest approach at insertionFrame and the initial guess scoring score;
\* velocityAtCorrection is set when the simulation reaches correctionStart
startOptimizer(len, insertionFrame, score) ==
  LET correctionStart == (insertionFrame * 2) \div 3 IN
  IF ~(correctionStart < len)
  THEN [IdleOptimizer EXCEPT !.pc = "done", !.startFrame = correctionStart]
  ELSE loopHead([pc |-> "idle", angle |-> 0, duration |-> 1, testDuration |-> 1,
                 startFrame |-> correctionStart,
                 bestScore |-> score, initialScore |-> score, iterationCount |-> 0,
                 improved |-> TRUE])

\* variant: the duration to test is not clamped
unclampedDuration(d) == d

\* Math.max(0, Math.min(MAX_DURATION, d))
clampDuration(d) ==
  LET capped == MinOf(MAX_DURATION, d) IN IF capped < 0 THEN 0 ELSE capped

\* one pass of the loop over angleDelta, the simulation scoring score
testAngle(o, angleDelta, score) ==
  IF score < o.bestScore
  THEN [o EXCEPT !.bestScore = score, !.angle = @ + angleDelta, !.improved = TRUE]
  ELSE o

\* one pass of the loop over durationDelta, the simulation scoring score
testDuration(o, durationDelta, score) ==
  LET tested == clampDuration(o.duration + durationDelta) IN
  IF tested = o.duration THEN o
  ELSE IF score < o.bestScore
  THEN [o EXCEPT !.testDuration = tested, !.bestScore = score, !.duration = tested,
                 !.improved = TRUE]
  ELSE [o EXCEPT !.testDuration = tested]

\* the next simulation of the loop body and what follows it
optimizerStep(o, score) ==
  CASE o.pc = "angleMinus" -> [testAngle(o, -ANGLE_STEP, score) EXCEPT !.pc = "anglePlus"]
    [] o.pc = "anglePlus" -> [testAngle(o, ANGLE_STEP, score) EXCEPT !.pc = "durationMinus"]
    [] o.pc = "durationMinus" ->
         [testDuration(o, -DURATION_STEP, score) EXCEPT !.pc = "durationPlus"]
    [] o.pc = "durationPlus" -> loopHead(testDuration(o, DURATION_STEP, score))

\* ---- the clock's buttons (game.js 5299-5351) ----

resetSpeed(s) == [s EXCEPT !.speedMultiplier = 1]

\* resetPredictions()
resetPredictions(s) == [s EXCEPT !.predictionBuffer = <<>>, !.predictionTimeAccum = 0]

\* initBodies(): the bodies and the craft as at the start; the frame count goes on
initBodies(s) == [s EXCEPT !.craft = NewCraft]

\* the reset-btn handler; resetTransferState comes first here because
\* transferCraft still is the craft object of before initBodies, with its
\* parentBody, when saveToTransferCache reads it
resetBtn(s) ==
  [resetSpeed(resetPredictions(initBodies(resetTransferState(s))))
     EXCEPT !.isPaused = FALSE]

\* ---- initial state ----
Init ==
  /\ isPaused = FALSE /\ speedMultiplier = 1
  /\ predictionTimeAccum = 0 /\ predictionBuffer = <<>> /\ now = 0
  /\ craft = NewCraft
  /\ transferState = "none" /\ transferSourceBody = NoBody
  /\ transferDestinationBody = NoBody /\ transferCraft = FALSE
  /\ transferBestScore = Infinity /\ transferBestFrame = -1
  /\ transferBestTrajectory = NoTrajectory /\ transferScheduledFrame = -1
  /\ transferInsertionFrame = 0 /\ transferBestArrivalFrame = Infinity
  /\ correctionAngle = 0 /\ correctionDuration = 0 /\ correctionStartFrame = 0
  /\ workerBusy = [w \in Workers |-> FALSE] /\ workerPoolReady = FALSE
  /\ nextBatchStart = 0 /\ pendingBatches = 0 /\ searchGeneration = 0
  /\ searchedUpToFrame = 0 /\ bufferShiftsSinceInit = 0
  /\ acceptableTrajectories = <<>>
  /\ transferCache = [key \in CacheKeys |-> NoCacheEntry]
  /\ inbox = [w \in Workers |-> <<>>]
  /\ outbox = [w \in Workers |-> <<>>]
  /\ workerSnapshot = [w \in Workers |-> NoSnapshot]
  /\ lastOp = QuietOp
  /\ dispatchedFrames = {}
  /\ optimizer = IdleOptimizer
  /\ orbitalAngle = 0

\* ---- actions ----

\* the plan that a scheduled launch will fly
ScheduledPlan(s) ==
  <<s.transferBestTrajectory, s.correctionAngle, s.correctionDuration,
    s.correctionStartFrame, s.transferInsertionFrame>>

\* what the last handler did, as far as the properties below refer to it (ghost)
deliverOp(s, m, after) ==
  IF s.lastOp = "cancel" /\ after.transferState = "none" THEN "cancel"
  ELSE IF s.lastOp = "reset" /\ after.transferState = "none" THEN "reset"
  ELSE IF m.type # "result" THEN QuietOp
  ELSE IF isStale(s, m) THEN "stale"
  ELSE IF Len(m.result.acceptableResults) = 0 THEN QuietOp
  ELSE IF Len(after.acceptableTrajectories) = Len(s.acceptableTrajectories) THEN "discarded"
  ELSE IF s.bufferShiftsSinceInit > 0 THEN "adjusted"
  ELSE IF s.transferState = "scheduled" /\ ScheduledPlan(after) # ScheduledPlan(s)
  THEN "replanned"
  ELSE QuietOp

tickOp(s, after) ==
  IF s.lastOp = "cancel" /\ after.transferState = "none" THEN "cancel"
  ELSE IF s.lastOp = "reset" /\ after.transferState = "none" THEN "reset"
  ELSE IF after.now > s.now /\ s.transferState = "scheduled"
          /\ Len(s.acceptableTrajectories) > 0 /\ after.craft.state = "free"
  THEN "launched"
  ELSE IF after.now > s.now /\ after.craft.state = "orbiting"
          /\ after.craft.parentBody # s.craft.parentBody
          /\ \/ s.transferState = "scheduled" /\ Len(s.acceptableTrajectories) > 0
             \/ s.lastOp = "launched" /\ s.craft.state = "free"
  THEN "captured"
  ELSE IF after.now > s.now /\ SearchActive(after.transferState)
          /\ Len(after.acceptableTrajectories) > 0
          /\ Len(after.acceptableTrajectories) < Len(s.acceptableTrajectories)
  THEN "expired"
  ELSE QuietOp

\* one turn of gameLoop with dt * speedMultiplier = dt frames
GameLoop ==
  \E dt \in DtValues :
    LET s == gameLoop(Cur, dt) IN
    /\ s.now <= MaxShifts
    /\ Assign([s EXCEPT !.lastOp = tickOp(Cur, s)])
    /\ UNCHANGED <<outbox, workerSnapshot>>

\* one turn of gameLoop, up to MaxClockShifts frames
ClockTick ==
  \E dt \in DtValues :
    LET s == gameLoop(Cur, dt) IN
    /\ s.now <= MaxClockShifts
    /\ Assign([s EXCEPT !.lastOp = tickOp(Cur, s)])
    /\ UNCHANGED <<outbox, workerSnapshot>>

\* variant: the speed wraps only above 16x
speedWrapsLate(s) ==
  LET s1 == IF s.speedMultiplier > 16 THEN resetSpeed(s)
            ELSE [s EXCEPT !.speedMultiplier = @ * 2]
  IN IF s1.isPaused /\ s1.speedMultiplier > 1
     THEN [s1 EXCEPT !.isPaused = FALSE]
     ELSE s1

\* the speed-btn handler: 1x, 2x, 4x, 8x, 16x and back to 1x
speedBtn(s) ==
  LET s1 == IF s.speedMultiplier >= 16 THEN resetSpeed(s)
            ELSE [s EXCEPT !.speedMultiplier = @ * 2]
  IN IF s1.isPaused /\ s1.speedMultiplier > 1
     THEN [s1 EXCEPT !.isPaused = FALSE]
     ELSE s1

\* variant: pausing also clears the accumulator
pauseClearsAccum(s) ==
  resetSpeed([s EXCEPT !.isPaused = ~@, !.predictionTimeAccum = 0])

\* the pause-btn handler
pauseBtn(s) == resetSpeed([s EXCEPT !.isPaused = ~@])

SpeedBtn ==
  /\ Assign([speedBtn(Cur) EXCEPT !.lastOp = QuietOp])
  /\ UNCHANGED <<outbox, workerSnapshot>>

\* the pause button
PauseBtn ==
  /\ Assign([pauseBtn(Cur) EXCEPT !.lastOp = QuietOp])
  /\ UNCHANGED <<outbox, workerSnapshot>>

\* the reset button: initBodies, resetPredictions, resetTransferState, resetSpeed
ResetBtn ==
  /\ Assign([resetBtn(Cur) EXCEPT !.lastOp = "reset"])
  /\ UNCHANGED <<outbox, workerSnapshot>>

\* the transfer button of the selected body's panel; the panel enables it
\* once the prediction buffer is full and shows it when no transfer is on
TransferBtn ==
  /\ transferState = "none"
  /\ Len(predictionBuffer) >= PREDICTION_FRAMES
  /\ craft.state = "orbiting"
  /\ Assign([Cur EXCEPT !.transferState = "selecting_destination",
                        !.transferSourceBody = craft.parentBody,
                        !.transferCraft = TRUE,
                        !.lastOp = QuietOp])
  /\ UNCHANGED <<outbox, workerSnapshot>>

\* variant: the click handler takes any body, the source included
SelectAnyBody ==
  \E body \in Bodies :
    /\ transferState = "selecting_destination"
    /\ searchGeneration < MaxGeneration
    /\ Assign([startTransferSearch([Cur EXCEPT !.transferDestinationBody = body])
                 EXCEPT !.lastOp = QuietOp])
    /\ UNCHANGED <<outbox, workerSnapshot>>

\* a click on a body while selecting the destination
SelectDestination ==
  \E body \in Bodies :
    /\ transferState = "selecting_destination"
    /\ body # transferSourceBody
    /\ searchGeneration < MaxGeneration
    /\ Assign([startTransferSearch([Cur EXCEPT !.transferDestinationBody = body])
                 EXCEPT !.lastOp = QuietOp])
    /\ UNCHANGED <<outbox, workerSnapshot>>

\* the cancel button of the transfer panels
CancelBtn ==
  /\ transferState # "none"
  /\ Assign([resetTransferState(Cur) EXCEPT !.lastOp = "cancel"])
  /\ UNCHANGED <<outbox, workerSnapshot>>

\* the schedule-launch-btn handler
scheduleLaunch(s) ==
  IF s.transferState = "ready"
  THEN [s EXCEPT !.transferState = "scheduled",
                 !.transferScheduledFrame = s.transferBestFrame]
  ELSE s

\* a click on the schedule-launch button (of a panel drawn in an earlier state, too)
ScheduleBtn ==
  /\ Assign([scheduleLaunch(Cur) EXCEPT
               !.lastOp = IF transferState = "ready" THEN QuietOp ELSE lastOp])
  /\ UNCHANGED <<outbox, workerSnapshot>>

\* a worker takes the next message of its queue and replies
WorkerStep ==
  \E w \in Workers :
    /\ inbox[w] # <<>>
    /\ LET m == Head(inbox[w])
           snap == IF m.type \in {"init", "updateBuffer"}
                   THEN [len |-> m.snapLen, time |-> m.snapTime]
                   ELSE workerSnapshot[w]
       IN /\ workerSnapshot' = [workerSnapshot EXCEPT ![w] = snap]
          /\ \E oc \in [m.frameStart..(m.frameEnd - 1) -> Outcomes] :
               outbox' = IF m.type = "updateBuffer" THEN outbox
                         ELSE [outbox EXCEPT ![w] = Append(@, reply(m, snap, oc))]
    /\ inbox' = [inbox EXCEPT ![w] = Tail(@)]
    /\ UNCHANGED <<isPaused, speedMultiplier, predictionTimeAccum, predictionBuffer, now,
         craft, transferState, transferSourceBody, transferDestinationBody, transferCraft,
         transferBestScore, transferBestFrame, transferBestTrajectory,
         transferScheduledFrame, transferInsertionFrame, transferBestArrivalFrame,
         correctionAngle, correctionDuration, correctionStartFrame,
         workerBusy, workerPoolReady, nextBatchStart, pendingBatches,
         searchGeneration, searchedUpToFrame, bufferShiftsSinceInit,
         acceptableTrajectories, transferCache, lastOp, dispatchedFrames, optimizer, orbitalAngle>>

\* processBatch throws while a worker handles a search message: the catch
\* block of self.onmessage posts an error
WorkerFails ==
  \E w \in Workers :
    /\ inbox[w] # <<>>
    /\ Head(inbox[w]).type = "search"
    /\ outbox' = [outbox EXCEPT ![w] = Append(@, ErrorMsg)]
    /\ inbox' = [inbox EXCEPT ![w] = Tail(@)]
    /\ UNCHANGED <<isPaused, speedMultiplier, predictionTimeAccum, predictionBuffer, now,
         craft, transferState, transferSourceBody, transferDestinationBody, transferCraft,
         transferBestScore, transferBestFrame, transferBestTrajectory,
         transferScheduledFrame, transferInsertionFrame, transferBestArrivalFrame,
         correctionAngle, correctionDuration, correctionStartFrame,
         workerBusy, workerPoolReady, nextBatchStart, pendingBatches,
         searchGeneration, searchedUpToFrame, bufferShiftsSinceInit,
         acceptableTrajectories, transferCache, lastOp, dispatchedFrames, optimizer, orbitalAngle,
         workerSnapshot>>

\* the main thread handles the next message of one worker
Deliver ==
  \E w \in Workers :
    /\ outbox[w] # <<>>
    /\ LET m == Head(outbox[w])
           s == handleWorkerMessage(Cur, w, m)
       IN Assign([s EXCEPT !.lastOp = deliverOp(Cur, m, s)])
    /\ outbox' = [outbox EXCEPT ![w] = Tail(@)]
    /\ UNCHANGED workerSnapshot

Next ==
  \/ GameLoop
  \/ PauseBtn
  \/ ResetBtn
  \/ TransferBtn
  \/ SelectDestination
  \/ CancelBtn
  \/ ScheduleBtn
  \/ WorkerStep
  \/ Deliver

Spec == Init /\ [][Next]_vars

\* ---- one search with workers that may fail ----

FaultNext ==
  \/ GameLoop
  \/ TransferBtn
  \/ SelectDestination
  \/ WorkerStep
  \/ WorkerFails
  \/ Deliver

FaultSpec == Init /\ [][FaultNext]_vars

\* ---- the simulation clock at every speed ----

\* the snapshot of a full buffer taken before any frame was popped
FullSnapshot == [len |-> PREDICTION_FRAMES, time |-> 0]

PlanOutcome(late) ==
  [base |-> Min(BaseScores), corrected |-> Min(CorrectedScores), late |-> late,
   duration |-> Min(Durations)]

\* two plans of one search: the one launching later arrives first
EarlyArrival == candidate(TRANSFER_SEARCH_MIN_FRAMES + 1, FullSnapshot, PlanOutcome(FALSE))
LateArrival == candidate(TRANSFER_SEARCH_MIN_FRAMES, FullSnapshot, PlanOutcome(TRUE))

\* A state Spec reaches in twelve steps: the buffer is full, no frame was
\* popped, the search from HomeBody to the other body is complete with two
\* acceptable plans, the workers are idle and no message is in flight.
PlannedStart ==
  /\ isPaused = FALSE /\ speedMultiplier = 1
  /\ predictionTimeAccum = 0 /\ predictionBuffer = Frames(0, PREDICTION_FRAMES) /\ now = 0
  /\ craft = NewCraft
  /\ transferState = "ready" /\ transferSourceBody = HomeBody
  /\ transferDestinationBody = 2 /\ transferCraft = TRUE
  /\ transferBestScore = EarlyArrival.score
  /\ transferBestFrame = EarlyArrival.launchFrame
  /\ transferBestTrajectory = EarlyArrival.trajectory
  /\ transferScheduledFrame = -1
  /\ transferInsertionFrame = EarlyArrival.insertionFrame
  /\ transferBestArrivalFrame = EarlyArrival.arrivalFrame
  /\ correctionAngle = EarlyArrival.correction.angle
  /\ correctionDuration = EarlyArrival.correction.duration
  /\ correctionStartFrame = EarlyArrival.correction.startFrame
  /\ workerBusy = [w \in Workers |-> FALSE] /\ workerPoolReady = TRUE
  /\ nextBatchStart = PREDICTION_FRAMES - MIN_TRAJECTORY_RUNWAY_FRAMES
  /\ pendingBatches = 0 /\ searchGeneration = 1
  /\ searchedUpToFrame = PREDICTION_FRAMES - MIN_TRAJECTORY_RUNWAY_FRAMES
  /\ bufferShiftsSinceInit = 0
  /\ acceptableTrajectories = <<EarlyArrival, LateArrival>>
  /\ transferCache =
       [key \in CacheKeys |->
          IF key = getTransferCacheKey(HomeBody, 2)
          THEN [present |-> TRUE, score |-> EarlyArrival.score,
                launchFrame |-> EarlyArrival.launchFrame,
                arrivalFrame |-> EarlyArrival.arrivalFrame,
                trajectory |-> EarlyArrival.trajectory,
                insertionFrame |-> EarlyArrival.insertionFrame,
                correction |-> EarlyArrival.correction]
          ELSE NoCacheEntry]
  /\ inbox = [w \in Workers |-> <<>>]
  /\ outbox = [w \in Workers |-> <<>>]
  /\ workerSnapshot = [w \in Workers |-> FullSnapshot]
  /\ lastOp = QuietOp
  /\ dispatchedFrames =
       TRANSFER_SEARCH_MIN_FRAMES..(PREDICTION_FRAMES - MIN_TRAJECTORY_RUNWAY_FRAMES - 1)
  /\ optimizer = IdleOptimizer
  /\ orbitalAngle = 0

\* PlannedStart is a state of Spec (violated as an invariant of Spec)
PlannedStartUnreachable == ~PlannedStart

ClockInit == Init \/ PlannedStart

\* ticks at every speed, the pause, speed and reset buttons, and the launch
\* of the plan found
ClockNext ==
  \/ ClockTick
  \/ SpeedBtn
  \/ PauseBtn
  \/ ResetBtn
  \/ ScheduleBtn

ClockSpec == ClockInit /\ [][ClockNext]_vars

\* ---- properties ----

\* the results of the current generation still on their way to the main thread
CurrentResults ==
  {m \in UNION {{outbox[w][i] : i \in 1..Len(outbox[w])} : w \in Workers} :
     m.type = "result" /\ m.generation = searchGeneration}

\* an entry denotes the absolute frames of its trajectory, and keeps the
\* worker's insertionFrame and correction.startFrame
Aligned(e) ==
  /\ e.launchFrame + now = e.trajectory[1]
  /\ e.arrivalFrame + now = e.trajectory[1] + Len(e.trajectory)
  /\ e.insertionFrame = Len(e.trajectory) - 1
  /\ e.correction.isSet /\ e.correction.startFrame = (e.insertionFrame * 2) \div 3

\* C1: while a search is active, bufferShiftsSinceInit is the number of shifts
\* since the snapshot every result of the current generation was computed
\* against, and every stored entry denotes the absolute frames the worker
\* computed, with insertionFrame and correction.startFrame as the worker sent them.
C1_ShiftAdjustment ==
  SearchActive(transferState) =>
    /\ \A m \in CurrentResults : bufferShiftsSinceInit = now - m.snapTime
    /\ \A i \in 1..Len(acceptableTrajectories) : Aligned(acceptableTrajectories[i])

\* an acceptable result was ingested after the buffer had shifted
C1_Witness ==
  /\ lastOp = "adjusted"
  /\ SearchActive(transferState)
  /\ acceptableTrajectories # <<>>

\* the main thread takes a result of another generation from worker w
StaleDelivery(w) ==
  /\ outbox[w] # <<>>
  /\ outbox'[w] = Tail(outbox[w])
  /\ Head(outbox[w]).type = "result"
  /\ Head(outbox[w]).generation # searchGeneration

\* C2: a result of another generation leaves the plan registry (and every
\* other variable of the planner) as it was and only marks its worker idle;
\* searchGeneration never decreases, and every startTransferSearch adds one.
C2_StaleDropped ==
  [][/\ \A w \in Workers :
          StaleDelivery(w) =>
            /\ UNCHANGED <<acceptableTrajectories, transferState, pendingBatches,
                           searchedUpToFrame, transferCache, searchGeneration>>
            /\ UNCHANGED <<transferBestScore, transferBestFrame, transferBestTrajectory,
                           transferBestArrivalFrame, transferInsertionFrame,
                           transferScheduledFrame, correctionAngle, correctionDuration,
                           correctionStartFrame>>
            /\ UNCHANGED <<nextBatchStart, bufferShiftsSinceInit, workerPoolReady,
                           inbox, craft>>
            /\ workerBusy' = [workerBusy EXCEPT ![w] = FALSE]
     /\ searchGeneration' >= searchGeneration
     /\ (transferState = "selecting_destination" /\ transferState' = "searching")
          => searchGeneration' = searchGeneration + 1]_vars

\* a result of generation 1 was handled during the search of generation 2
C2_Witness ==
  /\ lastOp = "stale"
  /\ SearchActive(transferState)
  /\ searchGeneration > 1

\* C3: after a cancel, the replies to batches dispatched before it are dropped:
\* as long as no new transfer is begun the list stays empty, transferBest*
\* stays cleared and pendingBatches stays as the cancel left it.
C3_CancelDropsLateReplies ==
  lastOp = "cancel" =>
    /\ acceptableTrajectories = <<>>
    /\ transferBestFrame = -1 /\ transferBestTrajectory = NoTrajectory
    /\ transferBestScore = Infinity /\ transferBestArrivalFrame = Infinity
    /\ pendingBatches = 0

\* the messages of a queue whose type is in types
CountOf(queue, types) == Cardinality({i \in 1..Len(queue) : queue[i].type \in types})

\* the search batches of worker w that are dispatched and not yet answered
OutstandingSearch(w) ==
  CountOf(inbox[w], {"search"}) + CountOf(outbox[w], {"result", "error"})

\* the snapshots of worker w that are posted and not yet acknowledged
OutstandingInit(w) ==
  CountOf(inbox[w], {"init"}) + CountOf(outbox[w], {"ready"})

\* C4: every worker has at most one search batch outstanding, and a worker
\* marked idle has no outstanding init or search message.
C4_Backpressure ==
  \A w \in Workers :
    /\ OutstandingSearch(w) <= 1
    /\ ~workerBusy[w] => OutstandingSearch(w) + OutstandingInit(w) = 0

\* C5: in state ready the list is non-empty and transferBestFrame and
\* transferBestTrajectory are those of its first entry.
C5_ReadyHasPlan ==
  transferState = "ready" =>
    /\ acceptableTrajectories # <<>>
    /\ transferBestFrame = acceptableTrajectories[1].launchFrame
    /\ transferBestTrajectory = acceptableTrajectories[1].trajectory

\* C6: every entry of the list has 0 < launchFrame <= arrivalFrame <= PREDICTION_FRAMES.
C6_EntryBounds ==
  \A i \in 1..Len(acceptableTrajectories) :
    LET e == acceptableTrajectories[i] IN
    0 < e.launchFrame /\ e.launchFrame <= e.arrivalFrame
      /\ e.arrivalFrame <= PREDICTION_FRAMES

\* a result was left out for its adjusted launch frame while the list holds an entry
C6_Witness ==
  /\ lastOp = "discarded"
  /\ acceptableTrajectories # <<>>

\* C7: the list is sorted by arrivalFrame, non-decreasing.
C7_SortedByArrival ==
  \A i \in 1..Len(acceptableTrajectories), j \in 1..Len(acceptableTrajectories) :
    i < j => acceptableTrajectories[i].arrivalFrame <= acceptableTrajectories[j].arrivalFrame

\* the entry that launches later arrives earlier and stands first
C7_Witness ==
  /\ Len(acceptableTrajectories) >= 2
  /\ acceptableTrajectories[1].launchFrame > acceptableTrajectories[2].launchFrame
  /\ acceptableTrajectories[1].arrivalFrame < acceptableTrajectories[2].arrivalFrame

\* the list after k shifts: every entry k frames nearer, those at or below 0 removed
ShiftedBy(list, k) ==
  SelectSeq([i \in 1..Len(list) |->
               [list[i] EXCEPT !.launchFrame = @ - k, !.arrivalFrame = @ - k]],
            StillAhead)

\* C8: a game-loop turn of k > 0 shifts that begins and ends in searching,
\* ready or scheduled moves every entry k frames nearer and removes exactly
\* the entries whose launchFrame reaches 0; the first entry is the old first
\* entry at L0 - k, or the old one has expired and the next entry stands first;
\* outside scheduled transferBest* follows the first entry, in scheduled the
\* counter goes down by k.
C8_ShiftConsistency ==
  [][(now' > now /\ SearchActive(transferState) /\ SearchActive(transferState')) =>
       LET k == now' - now
           list == acceptableTrajectories
       IN /\ acceptableTrajectories' = ShiftedBy(list, k)
          /\ list # <<>> =>
                \/ /\ acceptableTrajectories' # <<>>
                   /\ acceptableTrajectories'[1].launchFrame = list[1].launchFrame - k
                   /\ acceptableTrajectories'[1].trajectory = list[1].trajectory
                \/ /\ list[1].launchFrame <= k
                   /\ acceptableTrajectories' = ShiftedBy(Tail(list), k)
          /\ (transferState' # "scheduled" /\ acceptableTrajectories' # <<>>) =>
                /\ transferBestFrame' = acceptableTrajectories'[1].launchFrame
                /\ transferBestTrajectory' = acceptableTrajectories'[1].trajectory
          /\ transferState = "scheduled" =>
                transferScheduledFrame' = transferScheduledFrame - k]_vars

\* a shift removed the first entry and the next entry became the current best
C8_Witness ==
  /\ lastOp = "expired"
  /\ transferState = "ready"
  /\ transferBestFrame = acceptableTrajectories[1].launchFrame

\* C9: while a launch is scheduled the counter is never negative (the launch
\* fires at the shift that brings it to 0, never from a value below 0).
C9_ScheduledCounter ==
  transferState = "scheduled" => transferScheduledFrame >= 0

\* a plan of the list is scheduled
PlanScheduled == transferState = "scheduled" /\ acceptableTrajectories # <<>>

\* the correction the launch hands to the craft
PlanCorrection ==
  IF correctionDuration > 0
  THEN [isSet |-> TRUE, angle |-> correctionAngle, duration |-> correctionDuration,
        startFrame |-> correctionStartFrame]
  ELSE NoCorrection

\* the craft is on a transfer
InTransfer == craft.state = "free" /\ craft.destinationBody # NoBody

\* the last n - k elements of a sequence of length n
DropFirst(seq, k) == SubSeq(seq, k + 1, Len(seq))

\* while a plan is scheduled the craft waits in orbit, the plan is the first
\* entry of the list, and the counter is its launch frame, k > 0 shifts away
\* from the first frame of its trajectory
C10_Timing ==
  PlanScheduled =>
    LET plan == acceptableTrajectories[1] IN
    /\ craft.state = "orbiting"
    /\ transferScheduledFrame = plan.launchFrame
    /\ transferScheduledFrame > 0
    /\ transferBestTrajectory = plan.trajectory
    /\ plan.arrivalFrame = plan.launchFrame + Len(plan.trajectory)
    /\ now + plan.launchFrame = plan.trajectory[1]

\* a game-loop turn of k shifts, seen from a scheduled plan and from a transfer
C10_Step ==
  /\ (PlanScheduled /\ now' > now) =>
       LET k == now' - now
           L == acceptableTrajectories[1].launchFrame
           A == acceptableTrajectories[1].arrivalFrame
       IN /\ k < L => (craft' = craft /\ transferState' = "scheduled")
          /\ (L <= k /\ k < A) =>
               /\ craft'.state = "free"
               /\ craft'.trajectoryBuffer = DropFirst(transferBestTrajectory, k - L)
               /\ craft'.destinationBody = transferDestinationBody
               /\ craft'.correctionParams = PlanCorrection
               /\ craft'.insertionFrame = transferInsertionFrame
               /\ transferState' = "none"
          /\ A <= k =>
               /\ craft'.state = "orbiting"
               /\ craft'.parentBody = transferDestinationBody
               /\ craft'.orbitalAltitude = CRAFT_ORBITAL_ALTITUDE
  /\ (InTransfer /\ now' > now) =>
       LET k == now' - now
           left == Len(craft.trajectoryBuffer)
       IN /\ left > 0
          /\ k < left =>
               /\ craft'.state = "free"
               /\ craft'.destinationBody = craft.destinationBody
               /\ craft'.trajectoryBuffer = DropFirst(craft.trajectoryBuffer, k)
          /\ left <= k =>
               /\ craft'.state = "orbiting"
               /\ craft'.parentBody = craft.destinationBody
               /\ craft'.orbitalAltitude = CRAFT_ORBITAL_ALTITUDE

\* C10: a scheduled plan with launch frame L and arrival frame A = L +
\* trajectory length launches the craft at the L-th shift, with the plan's
\* trajectory, correction and destination, and the craft is captured at the
\* A-th shift, orbiting the destination at CRAFT_ORBITAL_ALTITUDE, not
\* earlier and not later.
C10_LaunchAndCapture == []C10_Timing /\ [][C10_Step]_vars

\* the craft has flown a plan of the list to its end and orbits the destination
C10_Witness ==
  /\ lastOp = "captured"
  /\ craft.state = "orbiting"
  /\ craft.parentBody # HomeBody
  /\ craft.orbitalAltitude = CRAFT_ORBITAL_ALTITUDE

\* C11: transferState changes only along none -> selecting_destination ->
\* searching, searching -> ready with a non-empty list, ready -> searching
\* with an empty list, ready -> scheduled, and anything -> none; scheduled
\* is entered only from ready and left only for none.
C11_StateMachine ==
  [][transferState' # transferState =>
       \/ transferState = "none" /\ transferState' = "selecting_destination"
       \/ transferState = "selecting_destination" /\ transferState' = "searching"
       \/ /\ transferState = "searching" /\ transferState' = "ready"
          /\ acceptableTrajectories' # <<>>
       \/ /\ transferState = "ready" /\ transferState' = "searching"
          /\ acceptableTrajectories' = <<>>
       \/ /\ transferState = "ready" /\ transferState' = "scheduled"
          /\ transferScheduledFrame' = transferBestFrame
       \/ transferState' = "none"]_vars

\* ---- the simulation clock ----

\* the step is a turn of gameLoop with this dt
IsTick(dt) ==
  LET s == gameLoop(Cur, dt) IN
  /\ Assign([s EXCEPT !.lastOp = tickOp(Cur, s)])
  /\ UNCHANGED <<outbox, workerSnapshot>>

\* the frames the shift loop of a call finds: the buffer, or the initial fill
\* of an empty buffer
FramesAhead ==
  IF predictionBuffer = <<>>
  THEN Frames(now, MinOf(MAX_CATCHUP_FRAMES, PREDICTION_FRAMES))
  ELSE predictionBuffer

\* floor((accum + dt * speedMultiplier) / PREDICTION_DT)
WholeSteps(dt) == (predictionTimeAccum + dt * speedMultiplier) \div PREDICTION_DT

\* the turn posted a new snapshot to the workers
Reinitialised ==
  \E w \in Workers : /\ Len(inbox'[w]) > Len(inbox[w])
                     /\ inbox'[w][Len(inbox'[w])].type = "init"

\* C12 as stated: every turn that is not paused performs exactly
\* floor((accum + dt * speedMultiplier) / PREDICTION_DT) shifts.
C12_ExactShiftCount ==
  [][\A dt \in DtValues :
       (~isPaused /\ IsTick(dt)) => now' - now = WholeSteps(dt)]_vars

\* what k shifts do to the frames ahead, the accumulator and the dependents
ShiftedOnceEach(dt, k) ==
  /\ predictionTimeAccum' = predictionTimeAccum + dt * speedMultiplier - k * PREDICTION_DT
  /\ k > 0 => now' = FramesAhead[k] + 1
  /\ SubSeq(predictionBuffer', 1, Len(FramesAhead) - k) = DropFirst(FramesAhead, k)
  /\ (~Reinitialised /\ ~(transferState = "scheduled" /\ transferState' = "none")) =>
        bufferShiftsSinceInit' = bufferShiftsSinceInit + k
  /\ (SearchActive(transferState) /\ SearchActive(transferState')) =>
        acceptableTrajectories' = ShiftedBy(acceptableTrajectories, k)
  /\ (transferState = "scheduled" /\ transferState' = "scheduled") =>
        transferScheduledFrame' = transferScheduledFrame - k
  /\ transferState' = transferState =>
        \A key \in CacheKeys :
          LET entry == transferCache[key] IN
          transferCache'[key] =
            IF entry.present /\ entry.launchFrame > k
            THEN [entry EXCEPT !.launchFrame = @ - k, !.arrivalFrame = @ - k]
            ELSE NoCacheEntry
  /\ InTransfer =>
        IF k < Len(craft.trajectoryBuffer)
        THEN craft'.trajectoryBuffer = DropFirst(craft.trajectoryBuffer, k)
        ELSE craft'.state = "orbiting" /\ craft'.trajectoryBuffer = <<>>

\* C12, amended: every turn that is not paused performs exactly
\* min(floor((accum + dt * speedMultiplier) / PREDICTION_DT), frames ahead)
\* shifts, the frames ahead being the buffer or, for an empty buffer, its
\* initial fill; the time not consumed stays in the accumulator; the frames
\* are popped from the head in order and the craft, the cache and the plans
\* move one frame per popped frame.
C12_ShiftsPerTick ==
  [][\A dt \in DtValues :
       (~isPaused /\ IsTick(dt)) =>
          LET k == MinOf(WholeSteps(dt), Len(FramesAhead)) IN
          now' - now = k /\ ShiftedOnceEach(dt, k)]_vars

\* a turn has popped every frame ahead and left time in the accumulator,
\* with a craft launched or captured, or a plan expired, on the way
C12_Witness ==
  /\ predictionTimeAccum >= PREDICTION_DT /\ now > 0
  /\ lastOp \in {"launched", "captured", "expired"}

\* C13: frame k (from 0) of predictionBuffer is simulateStep applied k + 1
\* times to the state the bodies hold, in every state, also after turns that
\* popped every frame before the buffer was extended again.
C13_Contiguity ==
  \A k \in 0..(Len(predictionBuffer) - 1) :
    predictionBuffer[k + 1] = (now - 1) + (k + 1)

\* the buffer was drained by a turn at more than 1x and extended again
C13_Witness ==
  /\ predictionTimeAccum >= PREDICTION_DT /\ speedMultiplier > 1
  /\ Len(predictionBuffer) > 1 /\ now > MAX_CATCHUP_FRAMES

\* frames pushed by a step: the growth of the buffer plus the frames popped
Appended == Len(predictionBuffer') - Len(predictionBuffer) + (now' - now)

\* the frames of the buffer that a step did not pop are still at the head,
\* in order, and whatever is new stands behind them; reset empties the buffer
HeadAndTailOnly ==
  \/ predictionBuffer' = <<>> /\ now' = now
  \/ LET k == now' - now
         kept == IF k <= Len(predictionBuffer) THEN DropFirst(predictionBuffer, k) ELSE <<>>
     IN /\ k >= 0 /\ Appended >= 0
        /\ Len(kept) <= Len(predictionBuffer')
        /\ SubSeq(predictionBuffer', 1, Len(kept)) = kept

C14_Length == Len(predictionBuffer) <= PREDICTION_FRAMES

\* C14: the buffer never holds more than PREDICTION_FRAMES frames, frames
\* leave at the head and arrive at the tail only, and no step (one
\* updatePhysics call) appends more than MAX_CATCHUP_FRAMES frames.
C14_BufferBounds ==
  []C14_Length /\ [][HeadAndTailOnly /\ Appended <= MAX_CATCHUP_FRAMES]_vars

\* the parts of C14 that do not count the appended frames
C14_HeadAndTail == []C14_Length /\ [][HeadAndTailOnly]_vars

\* the simulation state C15 lists
SimulationState(s) ==
  <<s.predictionBuffer, s.predictionTimeAccum, s.now, s.craft,
    s.acceptableTrajectories, s.transferScheduledFrame, s.bufferShiftsSinceInit>>

\* updatePhysics and updateCrafts change nothing of it while paused
C15_PausedCalls ==
  isPaused => \A dt \in DtValues :
                SimulationState(updateCrafts(updatePhysics(Cur, dt))) = SimulationState(Cur)

\* a whole game-loop turn while paused: updateTransferSearch runs as well and
\* may post a new snapshot, which resets bufferShiftsSinceInit
C15_PausedTurn ==
  (isPaused /\ \E dt \in DtValues : IsTick(dt)) =>
     /\ UNCHANGED <<predictionBuffer, predictionTimeAccum, now, craft,
                    acceptableTrajectories, transferScheduledFrame>>
     /\ ~Reinitialised => UNCHANGED bufferShiftsSinceInit

\* C15: while isPaused a tick (updatePhysics, updateCrafts) leaves the
\* prediction buffer, the accumulator, the bodies, the craft and its
\* trajectory buffer, the plans' indices, transferScheduledFrame and
\* bufferShiftsSinceInit unchanged, whatever dt is.
C15_PauseIsNoOp == []C15_PausedCalls /\ [][C15_PausedTurn]_vars

\* paused after some shifts, with a craft in flight whose next frame is the
\* head of the buffer
C15_Witness ==
  /\ isPaused /\ now > 0 /\ predictionBuffer # <<>>
  /\ InTransfer /\ craft.trajectoryBuffer # <<>>

\* pause, two game-loop turns while paused, resume
PauseResume(s, dt1, dt2) == pauseBtn(gameLoop(gameLoop(pauseBtn(s), dt1), dt2))

\* buffer, accumulator, bodies, craft and plan indices
Simulation(s) ==
  <<s.predictionBuffer, s.predictionTimeAccum, s.now, s.craft,
    s.acceptableTrajectories, s.transferScheduledFrame>>

\* C16 as stated: at any speed multiplier, a pause and a resume with turns in
\* between leave buffer, accumulator, bodies, craft, speed multiplier and
\* plan indices as they were, and so does the next turn after them.
C16_PauseResumeAnySpeed ==
  ~isPaused =>
    \A dt1, dt2, dt3 \in DtValues :
      LET r == PauseResume(Cur, dt1, dt2) IN
      /\ ~r.isPaused
      /\ Simulation(r) = Simulation(Cur)
      /\ r.speedMultiplier = speedMultiplier
      /\ Simulation(gameLoop(r, dt3)) = Simulation(gameLoop(Cur, dt3))

\* C16, amended: a pause and a resume with turns in between leave buffer,
\* accumulator, bodies, craft and plan indices as they were and the speed
\* multiplier at 1; at speed multiplier 1 the state is the one of the run
\* without the pause, and so is the state after the next turn.
C16_PauseResume ==
  ~isPaused =>
    \A dt1, dt2, dt3 \in DtValues :
      LET r == PauseResume(Cur, dt1, dt2) IN
      /\ ~r.isPaused
      /\ Simulation(r) = Simulation(Cur)
      /\ r.speedMultiplier = 1
      /\ speedMultiplier = 1 =>
            Simulation(gameLoop(r, dt3)) = Simulation(gameLoop(Cur, dt3))

\* running, with time left in the accumulator, or with a launch scheduled at
\* more than 1x
C16_Witness ==
  /\ ~isPaused /\ now > 0
  /\ \/ predictionTimeAccum >= PREDICTION_DT /\ speedMultiplier = 1
     \/ PlanScheduled /\ speedMultiplier > 1

\* ---- the cache ----

\* the cache entry that restoreFromTransferCache would take for the transfer
\* begun by the step: present, with its launch still ahead
CachedPlan == transferCache[getTransferCacheKey(craft.parentBody, transferDestinationBody')]

\* C17: a transfer restarted for a pair (source, destination) whose plan is
\* in the cache, as after a cancel with no shift in between, has an
\* acceptable plan at once: the state is ready and the best score is not
\* above the cached one, before any worker result arrives.
C17_CacheHitOnRestart ==
  [][(/\ transferState = "selecting_destination"
      /\ transferState' \notin {"selecting_destination", "none"}
      /\ CachedPlan.present
      /\ CachedPlan.launchFrame > TRANSFER_SEARCH_MIN_FRAMES) =>
        /\ transferState' = "ready"
        /\ transferBestFrame' > 0
        /\ transferBestScore' <= CachedPlan.score]_vars

\* ---- worker failure ----

\* no message is on its way to or from a worker
NothingInFlight == \A w \in Workers : inbox[w] = <<>> /\ outbox[w] = <<>>

\* C18: a worker's error reply to a search batch does not stall the planner:
\* the worker is idle again and pendingBatches returns to 0, so that
\* updateTransferSearch dispatches the remaining frames; in particular, once
\* every reply has been handled during a search, no batch is counted as
\* pending and no worker as busy.
C18_NoStallAfterError ==
  (SearchActive(transferState) /\ NothingInFlight) =>
     /\ pendingBatches = 0
     /\ \A w \in Workers : ~workerBusy[w]

\* ---- reset ----

CacheEmpty == \A key \in CacheKeys : ~transferCache[key].present

\* C19: right after reset the prediction buffer is empty, the accumulator
\* is 0 and transferState is none; acceptableTrajectories and transferCache
\* are empty then and stay empty until a new transfer is requested, also when
\* worker results of before the reset arrive (lastOp stays "reset" over
\* game-loop turns and deliveries until the transfer button is clicked).
C19_ResetDiscardsPlans ==
  /\ [](lastOp = "reset" =>
          /\ transferState = "none"
          /\ acceptableTrajectories = <<>>
          /\ CacheEmpty)
  /\ [][(lastOp # "reset" /\ lastOp' = "reset") =>
          predictionBuffer' = <<>> /\ predictionTimeAccum' = 0]_vars

\* the parts of C19 about the buffer, the accumulator and transferState
C19_ResetClock ==
  /\ [](lastOp = "reset" => transferState = "none")
  /\ [][(lastOp # "reset" /\ lastOp' = "reset") =>
          predictionBuffer' = <<>> /\ predictionTimeAccum' = 0]_vars

\* ---- what a search is started with ----

\* while a search is on, the destination is a body other than the one the
\* transfer craft orbits, and the craft orbits the source
C20_DuringSearch ==
  SearchActive(transferState) =>
    /\ transferCraft
    /\ transferDestinationBody # NoBody
    /\ transferDestinationBody # craft.parentBody
    /\ craft.state = "orbiting"
    /\ craft.parentBody = transferSourceBody

\* a transfer is requested for a craft in orbit around the source
C20_AtRequest ==
  (transferState # "selecting_destination" /\ transferState' = "selecting_destination") =>
    /\ craft.state = "orbiting" /\ craft' = craft
    /\ transferCraft' /\ transferSourceBody' = craft.parentBody

\* C20: in searching, ready and scheduled transferDestinationBody is not the
\* body the transfer craft orbits, and the craft was in orbit when the
\* transfer was requested.
C20_ValidTransfer == []C20_DuringSearch /\ [][C20_AtRequest]_vars

\* a second transfer, back from the body the craft was captured by
C20_Witness ==
  /\ SearchActive(transferState) /\ craft.parentBody # HomeBody
  /\ transferDestinationBody = HomeBody

\* ---- one search while the clock runs at any pace ----

MaxSweepShifts == 6     \* frames popped in one run of a single search

\* the time steps of the sweep: no frame, one frame, a whole buffer
SweepDts == {0, PREDICTION_DT, PREDICTION_FRAMES * PREDICTION_DT}

\* one turn of gameLoop, up to MaxSweepShifts frames
SweepTick ==
  \E dt \in SweepDts :
    LET s == gameLoop(Cur, dt) IN
    /\ s.now <= MaxSweepShifts
    /\ Assign([s EXCEPT !.lastOp = tickOp(Cur, s)])
    /\ UNCHANGED <<outbox, workerSnapshot>>

SweepNext ==
  \/ SweepTick
  \/ TransferBtn
  \/ SelectDestination
  \/ WorkerStep
  \/ Deliver

SweepSpec == Init /\ [][SweepNext]_vars

\* the search messages waiting in the workers' queues
Dispatched ==
  {m \in UNION {{inbox[w][i] : i \in 1..Len(inbox[w])} : w \in Workers} :
     m.type = "search"}

\* C21: every launch frame dispatched to a worker is at least
\* TRANSFER_SEARCH_MIN_FRAMES in the coordinates of the snapshot the worker
\* evaluates it against
C21_MinimumLaunchLead ==
  \A m \in Dispatched : m.frameStart >= TRANSFER_SEARCH_MIN_FRAMES

\* the snapshot worker w holds when it comes to the i-th message of its queue
RECURSIVE snapshotAt(_, _)
snapshotAt(w, i) ==
  IF i = 0 THEN workerSnapshot[w]
  ELSE IF inbox[w][i].type = "init"
       THEN [len |-> inbox[w][i].snapLen, time |-> inbox[w][i].snapTime]
       ELSE snapshotAt(w, i - 1)

\* the launch frames processBatch evaluates for message m on snapshot snap
Evaluated(m, snap) ==
  {L \in m.frameStart..(m.frameEnd - 1) : L < snap.len}

\* C22: every launch frame L a worker evaluates leaves at least
\* MIN_TRAJECTORY_RUNWAY_FRAMES frames of the snapshot the worker holds
C22_MinimumRunway ==
  \A w \in Workers : \A i \in 1..Len(inbox[w]) :
    inbox[w][i].type = "search" =>
      \A L \in Evaluated(inbox[w][i], snapshotAt(w, i)) :
        snapshotAt(w, i).len - L >= MIN_TRAJECTORY_RUNWAY_FRAMES

\* the results of search messages on their way to the main thread
ResultsInFlight ==
  UNION {{outbox[w][i].result : i \in 1..Len(outbox[w])} : w \in Workers}

\* an entry the optimizer produced with a score within the final threshold;
\* processBatch attaches a correction only when the base score was within
\* PRE_OPTIMIZATION_THRESHOLD and the optimizer ran
OptimizedAndGood(e) ==
  e.score <= POST_OPTIMIZATION_THRESHOLD /\ e.correction.isSet

\* C23: every entry of acceptableTrajectories, and every acceptable result a
\* worker returns, has score <= POST_OPTIMIZATION_THRESHOLD and comes from a
\* launch frame whose base score let the optimizer run; a candidate that
\* was not optimized is never among them
C23_AcceptableOnly ==
  /\ \A i \in 1..Len(acceptableTrajectories) :
       OptimizedAndGood(acceptableTrajectories[i])
  /\ \A r \in ResultsInFlight :
       \A i \in 1..Len(r.acceptableResults) : OptimizedAndGood(r.acceptableResults[i])

\* an entry is in the list while a worker returns a batch whose best
\* rejected candidate had a base score above the threshold
C23_Witness ==
  /\ acceptableTrajectories # <<>>
  /\ \E r \in ResultsInFlight :
       r.hasBest /\ ~r.bestNonAcceptable.correction.isSet
                 /\ r.bestNonAcceptable.score > PRE_OPTIMIZATION_THRESHOLD

\* the plan registry: the list and the best plan taken from it
Registry(s) ==
  <<s.acceptableTrajectories, s.transferBestFrame, s.transferBestTrajectory,
    s.transferBestArrivalFrame, s.transferBestScore, s.transferInsertionFrame,
    s.correctionAngle, s.correctionDuration, s.correctionStartFrame>>

\* worker w's next message to the main thread is a result of the running search
CurrentResultAtHead(w) ==
  /\ outbox[w] # <<>>
  /\ Head(outbox[w]).type = "result"
  /\ Head(outbox[w]).generation = searchGeneration

\* the main thread after the next messages of worker a, then of worker b
IngestedInOrder(a, b) ==
  handleWorkerMessage(handleWorkerMessage(Cur, a, Head(outbox[a])), b, Head(outbox[b]))

\* whenever two workers each have a result of the running search ready, the
\* registry is the same whichever of the two the main thread handles first
SameInEitherOrder ==
  \A a, b \in Workers :
    (a # b /\ SearchActive(transferState) /\ CurrentResultAtHead(a) /\ CurrentResultAtHead(b)) =>
      Registry(IngestedInOrder(a, b)) = Registry(IngestedInOrder(b, a))

\* the list holds at most one entry for a launch frame
OneEntryPerLaunchFrame ==
  \A i, j \in 1..Len(acceptableTrajectories) :
    i # j => acceptableTrajectories[i].launchFrame # acceptableTrajectories[j].launchFrame

\* C24: for results of one generation with no shift between them, the list
\* and the best plan are the same for every order of ingestion, and the list
\* never holds two entries for the same launch frame
C24_OrderIndependence == SameInEitherOrder /\ OneEntryPerLaunchFrame

\* C25: speedMultiplier is always one of 1, 2, 4, 8, 16, after any sequence
\* of speed-button, pause-button and reset events
C25_SpeedValues == speedMultiplier \in {1, 2, 4, 8, 16}

\* the top speed has been reached by the speed button while the clock runs
C25_Witness == speedMultiplier = 16 /\ ~isPaused /\ now > 0

\* the reset button has replaced the craft by a new one in its first orbit
NewCraftStep == now' = now /\ predictionBuffer' = <<>> /\ craft' = NewCraft

\* the scheduled launch has fired in this step
LaunchStep == now' > now /\ transferState = "scheduled" /\ transferState' = "none"

\* the craft after capture at body dest
Captured(c, dest) ==
  /\ c.state = "orbiting"
  /\ c.parentBody = dest
  /\ c.orbitalAltitude = CRAFT_ORBITAL_ALTITUDE
  /\ c.correctionParams = NoCorrection
  /\ c.destinationBody = NoBody
  /\ c.launchedFromBody = NoBody
  /\ c.escapeVelocity = 0
  /\ c.isAccelerating = FALSE
  /\ c.flightFrame = 0
  /\ c.trajectoryBuffer = <<>>

\* launch and launchWithTrajectory leave a craft in flight as it is
LaunchInFlightIsNoOp ==
  craft.state # "orbiting" =>
    /\ launch(craft, Cur) = craft
    /\ \A trajectory \in {NoTrajectory, transferBestTrajectory, <<now>>},
          dest \in Bodies \cup {NoBody} :
         launchWithTrajectory(craft, Cur, trajectory,
           [correctionParams |-> PlanCorrection, destinationBody |-> dest,
            insertionFrame |-> transferInsertionFrame]) = craft

\* one step of the craft: its state changes only by a launch or a capture
CraftStep ==
  LET k == now' - now
      left == Len(craft.trajectoryBuffer)
  IN
  \* Orbiting -> Free only by the scheduled launch
  /\ (craft.state = "orbiting" /\ craft'.state = "free") =>
       /\ LaunchStep
       /\ craft'.launchedFromBody = craft.parentBody
       /\ craft'.escapeVelocity = escapeVelocityAt(craft.parentBody)
  \* a craft in orbit is otherwise left alone, unless it is launched and
  \* captured at its destination within one turn
  /\ (craft.state = "orbiting" /\ craft'.state = "orbiting" /\ craft' # craft) =>
       \/ NewCraftStep
       \/ LaunchStep /\ Captured(craft', transferDestinationBody)
  \* Free -> Orbiting only by capture, with the flight data cleared
  /\ (craft.state = "free" /\ craft'.state = "orbiting") =>
       \/ NewCraftStep
       \/ /\ craft.destinationBody # NoBody
          /\ left > 0 /\ k >= left
          /\ Captured(craft', craft.destinationBody)
  \* capture happens when the last frame of a transfer trajectory is popped
  /\ (craft.state = "free" /\ craft.destinationBody # NoBody /\ left > 0 /\ k >= left) =>
       Captured(craft', craft.destinationBody)
  \* and not before, nor without a destination
  /\ (craft.state = "free" /\ ~NewCraftStep
        /\ (craft.destinationBody = NoBody \/ k < left)) =>
       craft'.state = "free"

\* C26: launch and launchWithTrajectory change nothing when the craft is
\* not orbiting; a craft goes Orbiting -> Free only by a launch and Free ->
\* Orbiting only by capture, exactly when its trajectory buffer becomes
\* empty on a shift while destinationBody is set; after capture parentBody
\* is the destination, orbitalAltitude is CRAFT_ORBITAL_ALTITUDE, and
\* correctionParams, destinationBody, launchedFromBody, escapeVelocity,
\* isAccelerating and flightFrame are cleared
C26_CraftStateMachine == []LaunchInFlightIsNoOp /\ [][CraftStep]_vars

\* the craft was launched with a correction, burned, and was captured
C26_Witness ==
  /\ lastOp = "captured"
  /\ \E dest \in Bodies \ {HomeBody} : Captured(craft, dest)

\* the messages of a queue that belong to a search batch of generation g:
\* the batch itself, its result, or the error that answers it
BatchesOf(queue, g) ==
  Cardinality({i \in 1..Len(queue) :
                 \/ queue[i].type \in {"search", "result"} /\ queue[i].generation = g
                 \/ queue[i].type = "error"})

RECURSIVE SumOver(_, _)
SumOver(S, f) ==
  IF S = {} THEN 0
  ELSE LET x == CHOOSE y \in S : TRUE IN f[x] + SumOver(S \ {x}, f)

\* the search batches of the current generation dispatched and not yet answered
Unanswered ==
  SumOver(Workers, [w \in Workers |->
    BatchesOf(inbox[w], searchGeneration) + BatchesOf(outbox[w], searchGeneration)])

\* C27: pendingBatches is never negative and always equals the number of
\* search batches of the current generation that have been dispatched and
\* not yet answered
C27_PendingBatches == pendingBatches >= 0 /\ pendingBatches = Unanswered

\* the plan made of an entry of the list, as updateBestFromList sets it
PlanOfEntry(e) ==
  <<e.trajectory,
    IF e.correction.isSet THEN e.correction.angle ELSE 0,
    IF e.correction.isSet THEN e.correction.duration ELSE 0,
    IF e.correction.isSet THEN e.correction.startFrame ELSE 0,
    e.insertionFrame>>

StaysScheduled == transferState = "scheduled" /\ transferState' = "scheduled"

\* the plan is kept and the counter goes down by one per shift
PlanKept ==
  /\ ScheduledPlan(Cur)' = ScheduledPlan(Cur)
  /\ transferScheduledFrame' = transferScheduledFrame - (now' - now)

\* the main thread handles message m of worker w in this step
Delivered(w, m) ==
  outbox[w] # <<>> /\ m = Head(outbox[w]) /\ outbox'[w] = Tail(outbox[w])

\* a result that handleWorkerMessage lets touch the plan: of the running
\* generation, with acceptable trajectories or with the list empty
TouchesPlan(m) ==
  /\ m.type = "result" /\ m.generation = searchGeneration
  /\ m.result.acceptableResults # <<>> \/ acceptableTrajectories = <<>>

FrameNumber(f) == now + f

\* C29: whenever pendingBatches is 0 during a search, every launch frame
\* below searchedUpToFrame, in current buffer coordinates and at least
\* TRANSFER_SEARCH_MIN_FRAMES ahead, has been handed to a worker in the
\* running generation (and, with no batch pending, answered): no frame
\* below the mark was skipped
C29_HighWaterMark ==
  (SearchActive(transferState) /\ pendingBatches = 0) =>
    \A f \in TRANSFER_SEARCH_MIN_FRAMES..(searchedUpToFrame - 1) :
      FrameNumber(f) \in dispatchedFrames

\* the search batches posted to worker w in this step
PostedTo(w) ==
  IF Len(inbox'[w]) > Len(inbox[w])
  THEN {m \in {inbox'[w][i] : i \in (Len(inbox[w]) + 1)..Len(inbox'[w])} :
          m.type = "search"}
  ELSE {}

\* the frame numbers of a batch posted in this step
PostedFrames(m) ==
  {now' - bufferShiftsSinceInit' + L : L \in m.frameStart..(m.frameEnd - 1)}

\* the frames dispatched before this step in the generation the step ends in
DispatchedEarlier ==
  IF searchGeneration' = searchGeneration THEN dispatchedFrames ELSE {}

\* no frame of a batch posted in this step was dispatched before or is in
\* another batch of this step
NoFrameTwice ==
  \A w \in Workers : \A m \in PostedTo(w) :
    /\ PostedFrames(m) \cap DispatchedEarlier = {}
    /\ \A v \in Workers \ {w} : \A m2 \in PostedTo(v) :
         PostedFrames(m) \cap PostedFrames(m2) = {}

\* the batches posted in this step are non-empty ranges of at most
\* searchBatchSize frames that continue, without gap or overlap, where the
\* batches sent before against this snapshot ended
ContiguousRanges ==
  LET posted == UNION {PostedTo(w) : w \in Workers}
      indices == UNION {m.frameStart..(m.frameEnd - 1) : m \in posted}
  IN posted # {} =>
       /\ \A m \in posted :
            m.frameStart < m.frameEnd /\ m.frameEnd - m.frameStart <= searchBatchSize
       /\ indices = nextBatchStart..(nextBatchStart' - 1)

\* C30: within one search generation no launch frame is dispatched to
\* workers in more than one batch, across the initial sweep, worker
\* re-initialisations and incremental re-searches; the batches dispatched
\* against one snapshot are contiguous, non-overlapping ranges of at most
\* searchBatchSize frames
C30_NoFrameSearchedTwice == [][NoFrameTwice /\ ContiguousRanges]_vars

\* a batch of a re-search, sent against a later snapshot, is in flight: more
\* frames have been dispatched in this generation than one sweep of a full
\* buffer holds
C30_Witness ==
  /\ pendingBatches > 0 /\ bufferShiftsSinceInit < now
  /\ Cardinality(dispatchedFrames) >
       PREDICTION_FRAMES - MIN_TRAJECTORY_RUNWAY_FRAMES - TRANSFER_SEARCH_MIN_FRAMES

\* ---- a search, the launch of its plan and the flight ----

\* the sweep's steps and the schedule button
FlightNext ==
  \/ SweepTick
  \/ TransferBtn
  \/ SelectDestination
  \/ ScheduleBtn
  \/ WorkerStep
  \/ Deliver

FlightSpec == Init /\ [][FlightNext]_vars

\* the craft flies a plan's trajectory
OnPlan(c) == c.state = "free" /\ c.destinationBody # NoBody

\* after the j-th shift of a flight the craft holds the frame of the body
\* frame applied in that shift, j frames were popped, and the flag tells
\* whether the worker computed that frame with the burn
C31_AtShift ==
  (craft.state = "free" /\ craft.flightFrame > 0) =>
    /\ craft.frame = getBodyStates(Cur)
    /\ craft.isCorrecting =
         (craft.correctionParams.isSet
          /\ burnApplied(craft.flightFrame - 1, craft.correctionParams.startFrame,
                         craft.correctionParams.duration))
    /\ OnPlan(craft) =>
         /\ craft.flightFrame + Len(craft.trajectoryBuffer) = craft.insertionFrame + 1
         /\ craft.correctionParams.isSet =>
              craft.correctionParams.startFrame = (craft.insertionFrame * 2) \div 3

\* a craft in flight before and after a step has popped one frame per shift
C31_PerShift ==
  (craft.state = "free" /\ craft'.state = "free") =>
    craft'.flightFrame - craft.flightFrame =
      MinOf(now' - now, Len(craft.trajectoryBuffer))

SearchingWithoutPlan == transferState = "searching" /\ acceptableTrajectories = <<>>

\* the result m of the running search offers a plan that is not acceptable,
\* with its launch frame still ahead
Offered(m) ==
  /\ m.type = "result" /\ m.generation = searchGeneration
  /\ m.result.acceptableResults = <<>> /\ m.result.hasBest
  /\ m.result.bestNonAcceptable.launchFrame - bufferShiftsSinceInit > 0

\* the step handles a result that offers a lower score than the one held
LowerOffered(w) ==
  /\ outbox[w] # <<>> /\ Delivered(w, Head(outbox[w])) /\ Offered(Head(outbox[w]))
  /\ Head(outbox[w]).result.bestNonAcceptable.score < transferBestScore

\* a step of a search without acceptable plan either takes a lower-scored
\* offer as the best plan or keeps the best plan, as long as its launch frame
\* is ahead
BestRetained ==
  (SearchingWithoutPlan /\ SearchingWithoutPlan' /\ searchGeneration' = searchGeneration) =>
    IF \E w \in Workers : LowerOffered(w)
    THEN \E w \in Workers :
           /\ LowerOffered(w)
           /\ transferBestScore' = Head(outbox[w]).result.bestNonAcceptable.score
           /\ transferBestTrajectory' = Head(outbox[w]).result.bestNonAcceptable.trajectory
    ELSE transferBestFrame - (now' - now) > 0 =>
           UNCHANGED <<transferBestScore, transferBestTrajectory>>

\* C32: while transferState is searching and no acceptable plan exists,
\* transferBestScore and transferBestTrajectory hold the lowest-scored
\* non-acceptable result handled so far in the generation (of those with
\* adjusted launch frame > 0), also across shifts of the prediction buffer
C32_BestNonAcceptableRetained == [][BestRetained]_vars

\* ---- the parameters of a search ----

\* the search messages posted and not yet taken by a worker
SearchesPosted ==
  {m \in UNION {{inbox[w][i] : i \in 1..Len(inbox[w])} : w \in Workers} : m.type = "search"}

\* C33: every search message posted by dispatchNextBatch carries all the
\* parameters processBatch reads, orbitalDirection among them
C33_SearchParameters == \A m \in SearchesPosted : processBatchReads \subseteq m.params

\* ---- the length of the craft's trajectory buffer ----

\* the craft flies without destination (launch without a plan's trajectory)
Drifting(c) == c.state = "free" /\ c.destinationBody = NoBody

\* between ticks the buffer of a craft without destination is as long as
\* the prediction buffer
DriftBufferFull ==
  Drifting(craft) =>
    /\ Len(craft.trajectoryBuffer) = Len(predictionBuffer)
    /\ Len(craft.trajectoryBuffer) <= PREDICTION_FRAMES

\* the buffer of a craft on a plan loses its first frame at every shift and
\* is never appended to
PlanBufferShrinks ==
  (OnPlan(craft) /\ OnPlan(craft')) =>
    /\ now' - now <= Len(craft.trajectoryBuffer)
    /\ craft'.trajectoryBuffer =
         SubSeq(craft.trajectoryBuffer, now' - now + 1, Len(craft.trajectoryBuffer))

\* C34: after every tick a free craft without destination has a trajectory
\* buffer as long as the prediction buffer, at most the horizon; a free craft
\* with a destination has its buffer shortened by one frame per shift and
\* never extended
C34_CraftBufferLength == []DriftBufferFull /\ [][PlanBufferShrinks]_vars

\* a craft without destination whose buffer was popped and topped up again
C34_Witness ==
  /\ Drifting(craft) /\ craft.flightFrame > 1
  /\ Len(craft.trajectoryBuffer) = PREDICTION_FRAMES

\* ---- a worker and the messages it is sent ----

MaxPosts == 3           \* messages waiting or answered in one run
MaxSnapTime == 1        \* the latest snapshot posted

\* the lengths of the snapshots posted
SnapLens == {PREDICTION_FRAMES}

\* snapshots are taken as time goes on: later than every one worker w has
\* or will get
LaterTimes(w) ==
  {t \in 0..MaxSnapTime :
     /\ t > workerSnapshot[w].time
     /\ \A i \in 1..Len(inbox[w]) :
          inbox[w][i].type \in {"init", "updateBuffer"} => t > inbox[w][i].snapTime}

\* the messages self.onmessage knows
WorkerInputs(w) ==
  {InitMsg(len, time) : len \in SnapLens, time \in LaterTimes(w)}
    \cup {UpdateMsg(len, time) : len \in SnapLens, time \in LaterTimes(w)}
    \cup {SearchMsg(gen, fs, fs + 1) :
            gen \in {1, MaxGeneration},
            fs \in {TRANSFER_SEARCH_MIN_FRAMES}}

\* the messages posted so far: those waiting and those answered
PostsSoFar(w) == Len(inbox[w]) + Len(outbox[w])

\* worker.postMessage of any message a worker knows, to the first worker
\* (all run the same script)
Post ==
  \E w \in {Min(Workers)} :
    \E m \in WorkerInputs(w) :
      /\ PostsSoFar(w) < MaxPosts
      /\ inbox' = [inbox EXCEPT ![w] = Append(@, m)]
      /\ UNCHANGED <<isPaused, speedMultiplier, predictionTimeAccum, predictionBuffer, now,
           craft, transferState, transferSourceBody, transferDestinationBody, transferCraft,
           transferBestScore, transferBestFrame, transferBestTrajectory,
           transferScheduledFrame, transferInsertionFrame, transferBestArrivalFrame,
           correctionAngle, correctionDuration, correctionStartFrame,
           workerBusy, workerPoolReady, nextBatchStart, pendingBatches,
           searchGeneration, searchedUpToFrame, bufferShiftsSinceInit,
           acceptableTrajectories, transferCache, lastOp, dispatchedFrames, optimizer, orbitalAngle,
           outbox, workerSnapshot>>

WorkerNext ==
  \/ Post
  \/ WorkerStep
  \/ WorkerFails

\* a worker's event loop takes every message posted to it
WorkerSpec == Init /\ [][WorkerNext]_vars /\ WF_vars(WorkerStep \/ WorkerFails)

\* worker w takes the message at the head of its inbox
Taken(w) == inbox[w] # <<>> /\ inbox'[w] = Tail(inbox[w])

\* the snapshot an init or updateBuffer message carries
SnapshotOf(m) == [len |-> m.snapLen, time |-> m.snapTime]

\* r is a reply to the search m evaluated against snap
AnswersSearch(r, m, snap) ==
  \/ r.type = "error"
  \/ /\ r.type = "result"
     /\ r.generation = m.generation
     /\ r.frameStart = m.frameStart /\ r.frameEnd = m.frameEnd
     /\ snap # NoSnapshot /\ r.snapTime = snap.time
     /\ \E oc \in [m.frameStart..(m.frameEnd - 1) -> Outcomes] :
          r.result = processBatch(m.frameStart, m.frameEnd, snap, oc)

\* one message is added at the end of q
OneMore(q, after) ==
  Len(after) = Len(q) + 1 /\ SubSeq(after, 1, Len(q)) = q

\* what a step does to worker w: messages are taken from the head of the
\* inbox, one at a time; only taking a message posts a reply or changes the
\* snapshot; init is answered by ready and sets the snapshot, updateBuffer
\* sets the snapshot and is not answered, search is answered by a result
\* for the snapshot held or by an error
ProtocolStep(w) ==
  /\ inbox'[w] # inbox[w] => Taken(w) \/ OneMore(inbox[w], inbox'[w])
  /\ ~Taken(w) =>
       /\ workerSnapshot'[w] = workerSnapshot[w]
       /\ outbox'[w] = outbox[w] \/ (outbox[w] # <<>> /\ outbox'[w] = Tail(outbox[w]))
  /\ Taken(w) =>
       LET m == Head(inbox[w]) IN
       CASE m.type = "init" ->
              /\ outbox'[w] = Append(outbox[w], ReadyMsg)
              /\ workerSnapshot'[w] = SnapshotOf(m)
         [] m.type = "updateBuffer" ->
              /\ outbox'[w] = outbox[w]
              /\ workerSnapshot'[w] = SnapshotOf(m)
         [] m.type = "search" ->
              /\ workerSnapshot'[w] = workerSnapshot[w]
              /\ OneMore(outbox[w], outbox'[w])
              /\ AnswersSearch(outbox'[w][Len(outbox'[w])], m, workerSnapshot[w])

\* C35: a worker answers every init with one ready and every search with
\* one reply, a result echoing generation, frameStart and frameEnd or an
\* error, and does not answer updateBuffer; messages are answered in the
\* order received, a search against the snapshot of the last init or
\* updateBuffer before it; every message posted is taken
C35_WorkerProtocol ==
  /\ [][\A w \in Workers : ProtocolStep(w)]_vars
  /\ \A w \in Workers : <>[](inbox[w] = <<>>)

\* an init, an updateBuffer and a search were answered by a ready and a
\* result for the snapshot of the updateBuffer
C35_Witness ==
  \E w \in Workers :
    /\ inbox[w] = <<>> /\ Len(outbox[w]) = 2
    /\ outbox[w][1].type = "ready" /\ outbox[w][2].type = "result"
    /\ workerSnapshot[w].time = MaxSnapTime /\ outbox[w][2].snapTime = MaxSnapTime

\* ---- a run of the optimizer ----

\* processBatch calls optimizeCorrectionBoost for a trajectory that runs to
\* the end of the snapshot, with the insertion frame scoreTrajectory found in it
OptStart ==
  /\ optimizer.pc = "idle"
  /\ \E len \in 1..PREDICTION_FRAMES :
       \E insertionFrame \in 0..(len - 1) :
         \E score \in OptScores :
           optimizer' = startOptimizer(len, insertionFrame, score)
  /\ UNCHANGED <<mainVars, outbox, workerSnapshot, orbitalAngle>>

\* the next simulateTrajectoryWithCorrection of the loop and its score
OptTest ==
  /\ optimizer.pc \in {"angleMinus", "anglePlus", "durationMinus", "durationPlus"}
  /\ \E score \in OptScores : optimizer' = optimizerStep(optimizer, score)
  /\ UNCHANGED <<mainVars, outbox, workerSnapshot, orbitalAngle>>

OptNext ==
  \/ OptStart
  \/ OptTest

\* the worker runs the function to its end
OptSpec == Init /\ [][OptNext]_vars /\ WF_vars(OptNext)

\* the counter stays within MAX_ITERATIONS, the durations tried and held
\* within [0, MAX_DURATION], the score at or below the initial guess's
OptimizerBounds ==
  /\ optimizer.iterationCount \in 0..MAX_ITERATIONS
  /\ optimizer.duration \in 0..MAX_DURATION
  /\ optimizer.testDuration \in 0..MAX_DURATION
  /\ optimizer.bestScore <= optimizer.initialScore

\* a step that moves the angle or the duration lowers the score, and no
\* step raises it
MovesLowerScore ==
  optimizer.pc # "idle" =>
    /\ optimizer'.bestScore <= optimizer.bestScore
    /\ (optimizer'.angle # optimizer.angle \/ optimizer'.duration # optimizer.duration) =>
         optimizer'.bestScore < optimizer.bestScore

\* C36: optimizeCorrectionBoost ends after at most MAX_ITERATIONS passes of
\* its loop; the durations it tries and returns are within
\* [0, ceil(10 / PREDICTION_DT)]; every accepted move strictly lowers the
\* score, so the score returned is at most that of the initial guess
C36_OptimizerTerminates ==
  /\ []OptimizerBounds
  /\ [][MovesLowerScore]_vars
  /\ <>(optimizer.pc = "done")

\* a run ended by the cap on the passes, every pass having improved the score
C36_Witness ==
  /\ optimizer.pc = "done" /\ optimizer.improved
  /\ optimizer.iterationCount = MAX_ITERATIONS
  /\ optimizer.duration = MAX_DURATION

\* ---- the trajectories of a batch result ----

\* the candidates of the results in flight, acceptable or fallback
CandidatesInFlight ==
  UNION {{r.acceptableResults[i] : i \in 1..Len(r.acceptableResults)}
           \cup (IF r.hasBest THEN {r.bestNonAcceptable} ELSE {}) : r \in ResultsInFlight}

\* C37: every trajectory of a batch result, acceptable or fallback, has
\* insertionFrame + 1 frames and arrivalFrame = launchFrame + its length, and
\* truncating it again at its insertion frame leaves it as it is
C37_TruncatedAtInsertion ==
  \A c \in CandidatesInFlight :
    /\ Len(c.trajectory) = c.insertionFrame + 1
    /\ c.arrivalFrame = c.launchFrame + Len(c.trajectory)
    /\ truncate(c.trajectory, c.insertionFrame) = c.trajectory

\* a result with a plan cut at the first frame and a plan that runs to the
\* end of the snapshot
C37_Witness ==
  \E c, d \in CandidatesInFlight :
    /\ Len(c.trajectory) = 1
    /\ Len(d.trajectory) > 1 /\ d.launchFrame + Len(d.trajectory) = PREDICTION_FRAMES

\* ---- the buffer on its way back to the horizon ----

MaxHorizonShifts == 12  \* frames popped in one run of the clock with long ticks

\* the time steps of a turn: none, one frame, as many as a call adds at
\* most less one, a whole buffer
HorizonDts == {0, PREDICTION_DT, (MAX_CATCHUP_FRAMES - 1) * PREDICTION_DT,
               PREDICTION_FRAMES * PREDICTION_DT}

\* the state after one turn of gameLoop
turn(s, dt) ==
  LET after == gameLoop(s, dt) IN [after EXCEPT !.lastOp = tickOp(s, after)]

\* one turn of gameLoop, up to MaxHorizonShifts frames
HorizonTick ==
  \E dt \in HorizonDts :
    LET s == turn(Cur, dt) IN
    /\ s.now <= MaxHorizonShifts
    /\ Assign(s)
    /\ UNCHANGED <<outbox, workerSnapshot>>

HorizonNext ==
  \/ HorizonTick
  \/ SpeedBtn
  \/ PauseBtn

\* a turn of gameLoop would change the state: ENABLED <<HorizonTick>>_vars
TickEnabled ==
  \E dt \in HorizonDts : turn(Cur, dt).now <= MaxHorizonShifts /\ turn(Cur, dt) # Cur

\* requestAnimationFrame keeps calling gameLoop: WF_vars(HorizonTick), with
\* the enabling condition written as the state predicate it is
HorizonSpec ==
  /\ Init /\ [][HorizonNext]_vars
  /\ ([]<>(~TickEnabled) \/ []<><<HorizonTick>>_vars)

\* the step pops fewer than MAX_CATCHUP_FRAMES frames
SteadyStep == now' - now < MAX_CATCHUP_FRAMES

BufferFull == Len(predictionBuffer) = PREDICTION_FRAMES

\* the run of the clock ends here with frames still owed: the next turn
\* would pop beyond MaxHorizonShifts
OutOfClock == ~TickEnabled /\ predictionTimeAccum >= PREDICTION_DT

\* a turn of the running simulation that pops fewer than MAX_CATCHUP_FRAMES
\* frames
SteadyTick == <<HorizonTick>>_vars /\ ~isPaused /\ SteadyStep

\* C38: a tick that pops fewer than MAX_CATCHUP_FRAMES frames leaves a full
\* predictionBuffer full and a shorter one full or longer than it was; when
\* from some time on the simulation runs and every tick pops fewer than
\* MAX_CATCHUP_FRAMES frames, predictionBuffer.length reaches
\* PREDICTION_FRAMES and stays there, in every run that does not end with
\* frames owed beyond MaxHorizonShifts
C38_ReachesHorizon ==
  /\ [][(BufferFull /\ SteadyStep) => BufferFull']_vars
  /\ [][SteadyTick =>
          \/ BufferFull'
          \/ Len(predictionBuffer') > Len(predictionBuffer)]_vars
  /\ (<>[][SteadyStep]_vars /\ <>[](~isPaused))
       => <>[](BufferFull \/ OutOfClock)

\* the buffer is full again after it was drained by a long tick and topped
\* up by short ones
C38_Witness ==
  /\ BufferFull /\ now > PREDICTION_FRAMES /\ now < MaxHorizonShifts
  /\ speedMultiplier = 1 /\ ~isPaused

\* ---- trajectories of NaN frames ----

\* the trajectory holds a NaN frame
HasNaN(trajectory) == \E i \in DOMAIN trajectory : trajectory[i] = NaN

\* C39: a candidate whose trajectory holds a NaN frame has score Infinity in
\* the worker's result, no entry of acceptableTrajectories holds a NaN frame,
\* and transferBestTrajectory holds no NaN frame
C39_NaNDiscarded ==
  /\ \A c \in CandidatesInFlight : HasNaN(c.trajectory) => c.score = Infinity
  /\ \A i \in DOMAIN acceptableTrajectories :
       ~HasNaN(acceptableTrajectories[i].trajectory)
  /\ ~HasNaN(transferBestTrajectory)

\* ---- the angle of the craft on its orbit (game.js 2770-2776, 2877-2887) ----

TwoPi == 8              \* 2 * Math.PI, in steps of an eighth of a turn
AngularVelocity == 1    \* orbitalSpeed / orbitRadius, in steps per PREDICTION_DT
MaxAngle == 40          \* the largest angle followed

\* the values of Math.atan2(dy, dx): above -pi, up to pi
Atan2Values == (1 - TwoPi \div 2)..(TwoPi \div 2)

\* updateCrafts(dt), the orbiting branch: the angle grows and is taken back
\* by one turn when it is above 2 * Math.PI
advanceAngle(angle, dt, speed) ==
  LET a == angle + AngularVelocity * dt * speed
  IN IF a > TwoPi THEN a - TwoPi ELSE a

\* craft.orbitalAngle after one turn of gameLoop from s to after: the shift
\* that captures the craft sets it to atan2, updateCrafts advances it
angleAfter(s, after, angle, dt, atan2) ==
  LET a0 == IF s.craft.state = "free" /\ after.craft.state = "orbiting"
            THEN atan2 ELSE angle
  IN IF ~s.isPaused /\ after.craft.state = "orbiting"
     THEN advanceAngle(a0, dt, s.speedMultiplier)
     ELSE a0

\* one turn of gameLoop, up to MaxClockShifts frames and up to MaxAngle
AngleTick ==
  \E dt \in DtValues, atan2 \in Atan2Values :
    LET s == turn(Cur, dt)
        a == angleAfter(Cur, s, orbitalAngle, dt, atan2) IN
    /\ s.now <= MaxClockShifts
    /\ a <= MaxAngle
    /\ AssignMain(s)
    /\ orbitalAngle' = a
    /\ UNCHANGED <<outbox, workerSnapshot, optimizer>>

AngleNext ==
  \/ AngleTick
  \/ SpeedBtn
  \/ PauseBtn
  \/ ScheduleBtn

AngleSpec == ClockInit /\ [][AngleNext]_vars

\* C40: the orbitalAngle of an orbiting craft is at least 0 and below
\* 2 * Math.PI after every turn of gameLoop, whatever dt and the speed are
C40_AngleWrapped ==
  craft.state = "orbiting" => orbitalAngle \in 0..(TwoPi - 1)

====
